---- MODULE Spec2Model ----
(***************************************************************************)
(* chatbot_widget.mcp.server_manager.MCPServerManager as a state machine.  *)
(*                                                                         *)
(* The registry (self._servers) is an insertion-ordered dict; the OS side  *)
(* (child processes, open file objects, files on disk, bound TCP ports) is *)
(* part of the state because the manager's handlers read and change it.    *)
(* Every handler is a sequence of steps at the statements where the        *)
(* outside world can be observed to have moved (a child exits, a port is   *)
(* bound); a caller's position in its handler is frame[t].pc.              *)
(***************************************************************************)
EXTENDS Integers, Sequences, FiniteSets, TLC

VARIABLES
    servers,   \* self._servers: sequence of records, in dict insertion order
    procs,     \* child processes ever spawned by Popen, indexed by handle
    files,     \* file objects ever returned by open(log_file, "w"), by handle
    disk,      \* the log paths at which a file exists
    frame,     \* per caller: the handler being run, its locals, its last outcome
    controller, \* the ChatMCPController: _busy, its tool bookkeeping, the run in progress
    ui         \* the ChatView: chat box children, indicator, streams, send button

vars == <<servers, procs, files, disk, frame, controller, ui>>

-----------------------------------------------------------------------------
\* Bounds of the model.

\* open() calls (and so Popen calls) over a run
MaxLaunches == 2
\* number of ports in the allocator's range [PortStart, PortEnd]
RangeSize == 2

\* Program constants.
PortStart == 8600
MaxAttempts == 50
NoPort == 0

PortEnd == PortStart + RangeSize - 1
Ports == PortStart..PortEnd

\* port arguments: NoPort stands for None (both are falsy in `port or ...`)
PortArgs == {NoPort, PortStart}

Names == {"a", "b"}
Threads == {"main", "other"}

\* The working directory os.path.abspath resolves against, and the scripts on disk.
Cwd == "/w/"
ScriptArgs == {"random_server.py", "gone.py"}
ExistingPaths == {"/w/random_server.py", "/w/ascii_server.py"}

\* log_file = None; "" is falsy in `log_file or ...` like None
NoLog == ""
\* paths open(..., "w") cannot create
Unwritable == {"nodir/x.log"}

\* Python values passed as **kwargs, tagged by type: v is the number of a bool, an
\* int or a float (FloatV(i) is the float i.0), s the text of a str.
NoneV == [t |-> "none", v |-> 0, s |-> ""]
BoolV(b) == [t |-> "bool", v |-> IF b THEN 1 ELSE 0, s |-> ""]
IntV(i) == [t |-> "int", v |-> i, s |-> ""]
FloatV(i) == [t |-> "float", v |-> i, s |-> ""]
StrV(s) == [t |-> "str", v |-> 0, s |-> s]

\* The (port, log_file, kwargs) combinations start is called with.
StartArgs ==
    {[port |-> NoPort, log |-> NoLog, kwargs |-> << >>],
     [port |-> PortStart, log |-> NoLog, kwargs |-> <<[k |-> "seed", v |-> IntV(42)]>>],
     [port |-> NoPort, log |-> "x.log", kwargs |-> << >>],
     [port |-> NoPort, log |-> "nodir/x.log", kwargs |-> << >>]}

\* The **kwargs of the calls that exercise the command line: up to MaxKwargs
\* keyword arguments, the i-th under the key KwKey(i).
MaxKwargs == 3
KwKeys == <<"seed", "debug", "label">>
KwValues == {NoneV, BoolV(TRUE), BoolV(FALSE), IntV(0), IntV(1), IntV(42), FloatV(1),
             StrV("")}

-----------------------------------------------------------------------------
\* Pure helpers.

\* os.path.abspath for a relative path
Abspath(p) == Cwd \o p

\* f"{name}_server.log"
DefaultLog(name) == name \o "_server.log"

DigitChars == <<"0", "1", "2", "3", "4", "5", "6", "7", "8", "9">>

RECURSIVE IntStr(_)
\* str(i) for an int i >= 0
IntStr(i) == IF i < 10 THEN DigitChars[i + 1]
             ELSE IntStr(i \div 10) \o DigitChars[(i % 10) + 1]

KwKey(i) == IF i <= Len(KwKeys) THEN KwKeys[i] ELSE "k" \o IntStr(i)
KwargsInputs ==
    UNION {{kw \in [1..n -> [k : {KwKey(i) : i \in 1..n}, v : KwValues]] :
               \A i \in 1..n : kw[i].k = KwKey(i)} : n \in 0..MaxKwargs}

\* str(v) for a tagged value
Str(val) == CASE val.t = "none"  -> "None"
              [] val.t = "bool"  -> (IF val.v = 1 THEN "True" ELSE "False")
              [] val.t = "int"   -> IntStr(val.v)
              [] val.t = "float" -> IntStr(val.v) \o ".0"
              [] val.t = "str"   -> val.s

\* `v not in (None, True)`: tuple membership compares with ==, and 1 == True == 1.0
NotInNoneTrue(val) ==
    ~(val.t = "none" \/ (val.t \in {"bool", "int", "float"} /\ val.v = 1))

RECURSIVE ExtraArgs(_)
\* the loop building extra_args from kwargs.items()
ExtraArgs(kw) ==
    IF kw = << >> THEN << >>
    ELSE LET k == Head(kw).k
             v == Head(kw).v
         IN  <<"--" \o k>> \o (IF NotInNoneTrue(v) THEN <<Str(v)>> ELSE << >>)
                 \o ExtraArgs(Tail(kw))

-----------------------------------------------------------------------------
\* The registry as an insertion-ordered dict.

RegNames(reg) == {reg[i].name : i \in 1..Len(reg)}

\* `name in self._servers`
Has(name) == name \in RegNames(servers)

IndexOf(reg, name) == CHOOSE i \in 1..Len(reg) : reg[i].name = name

\* self._servers[name]
Get(name) == servers[IndexOf(servers, name)]

\* self._servers[name] = rec : replaces in place, or appends a new key
Put(reg, rec) ==
    IF rec.name \in RegNames(reg)
    THEN [reg EXCEPT ![IndexOf(reg, rec.name)] = rec]
    ELSE Append(reg, rec)

\* Pop that removes the oldest record, whatever the name
PopFirst(reg, name) == Tail(reg)

\* self._servers.pop(name)
Pop(reg, name) ==
    LET i == IndexOf(reg, name)
    IN  SubSeq(reg, 1, i - 1) \o SubSeq(reg, i + 1, Len(reg))

-----------------------------------------------------------------------------
\* The OS as the manager sees it.

\* s.bind(("", port)) raises OSError
Busy(p) ==
    \E k \in 1..Len(procs) :
       procs[k].state = "running" /\ procs[k].listening /\ procs[k].port = p

\* _find_free_port that returns its candidate without probing it
FindFreePortNoBind(start, end, left) == {[ok |-> TRUE, port |-> p] : p \in start..end}

RECURSIVE FindFreePort(_, _, _)
\* _find_free_port: the results the remaining `left` attempts can have; a
\* candidate is returned iff its bind succeeds, and the RuntimeError is raised
\* when every attempt drew a busy port.
FindFreePort(start, end, left) ==
    IF left = 0 THEN {[ok |-> FALSE, port |-> NoPort]}
    ELSE {[ok |-> TRUE, port |-> p] : p \in {q \in start..end : ~Busy(q)}}
         \cup (IF \E q \in start..end : Busy(q)
               THEN FindFreePort(start, end, left - 1)
               ELSE {})

\* The outcomes of one client round trip to http://127.0.0.1:{port}/mcp
RoundTrip(port) == IF Busy(port) THEN {"ok", "timeout"} ELSE {"refused"}

\* check_health(name, port): the values it can return
CheckHealth(name, port) ==
    IF ~Has(name) /\ port = NoPort THEN {FALSE}
    ELSE LET p == IF port # NoPort THEN port ELSE Get(name).port
         IN  {r = "ok" : r \in RoundTrip(p)}

-----------------------------------------------------------------------------
\* Outcomes of a call: a returned value or a raised exception.

NoMsg == [tmpl |-> "", name |-> "", port |-> NoPort, pid |-> 0]
Msg(tmpl, name, port, pid) == [tmpl |-> tmpl, name |-> name, port |-> port, pid |-> pid]

NoOut == [kind |-> "none", status |-> "", msg |-> NoMsg, healthy |-> FALSE,
          port |-> NoPort, log |-> "", value |-> << >>]

\* return {"status": status, "message": msg}
Envelope(status, msg) == [NoOut EXCEPT !.kind = "return", !.status = status, !.msg = msg]

\* an exception of class exc leaves the handler
Raised(exc) == [NoOut EXCEPT !.kind = "raise", !.status = exc]

\* return value
Value(v) == [NoOut EXCEPT !.kind = "return", !.value = v]

IdleFrame == [op |-> "none", pc |-> "idle", name |-> "", script |-> "", port |-> NoPort,
              log |-> "", kwargs |-> << >>, fh |-> 0, pid |-> 0,
              queue |-> << >>, results |-> << >>, lines |-> << >>, n |-> 0,
              remove |-> FALSE, trace |-> << >>, out |-> NoOut]

\* the handler ends with outcome out: the caller is handed the value or the exception
Done(f, out) == [f EXCEPT !.pc = "return", !.out = out]

\* widgets: a widget is identified by the number it was created under (its object
\* identity, or the uuid of a stream); None is 0
NoWidget == 0
Welcome == [kind |-> "welcome", id |-> NoWidget, sender |-> "", text |-> ""]

\* ChatView.__init__: the welcome message alone, no indicator, no stream, button
\* enabled. `made` counts the widgets created, `last` names the last method called.
NewView == [children |-> <<Welcome>>, thinking |-> NoWidget, streams |-> {},
            disabled |-> FALSE, made |-> 0, last |-> "__init__"]

\* ChatMCPController.__init__: not busy, streaming enabled, empty tool bookkeeping,
\* no conversation in progress (pc "idle"). `runs` counts the conversations running,
\* `inputs` the handle_input calls made, `msg` is the kind of the last message
\* handed to handle_input, `uuids` counts the uuid4() calls, `reported` lists the tool
\* events shown on the view. The three dicts are functions on their keys.
NewController == [busy |-> FALSE, streaming_enabled |-> TRUE, pc |-> "idle",
                  stream |-> NoWidget, partial |-> FALSE,
                  tool_run_lookup |-> << >>, pending_calls |-> << >>,
                  tool_metadata |-> << >>, runs |-> 0, inputs |-> 0, msg |-> "",
                  uuids |-> 0, reported |-> << >>]

Init ==
    /\ servers = << >>
    /\ procs = << >>
    /\ files = << >>
    /\ disk = {}
    /\ frame = [t \in Threads |-> IdleFrame]
    /\ controller = NewController
    /\ ui = NewView

-----------------------------------------------------------------------------
\* start(name, script_path, port, log_file, **kwargs)

\* caller t moves to frame f
Step(t, f) == frame' = [frame EXCEPT ![t] = f] /\ UNCHANGED <<controller, ui>>

\* f with event e appended to the effects of the running call
Did(f, e) == [f EXCEPT !.trace = Append(@, e)]

\* StartBegin without the `name in self._servers` check of line 92
StartBeginNoCheck(t, name, script, port, log, kwargs) ==
    /\ frame[t].pc = "idle"
    /\ LET f == [IdleFrame EXCEPT !.op = "start", !.name = name]
           sp == Abspath(script)
       IN  IF sp \notin ExistingPaths
           THEN Step(t, Done(f, Envelope("error",
                        Msg("Script not found: {script_path}", sp, NoPort, 0))))
           ELSE /\ Len(files) < MaxLaunches
                /\ Step(t, [f EXCEPT !.pc = "port", !.script = sp, !.port = port,
                                     !.log = log, !.kwargs = kwargs])
    /\ UNCHANGED <<servers, procs, files, disk>>

\* StartBegin that opens the log file before the checks of lines 92 and 96
StartBeginOpenFirst(t, name, script, port, log, kwargs) ==
    /\ frame[t].pc = "idle"
    /\ Len(files) < MaxLaunches
    /\ LET f == [IdleFrame EXCEPT !.op = "start", !.name = name]
           sp == Abspath(script)
           path == IF log # NoLog THEN log ELSE DefaultLog(name)
       IN  /\ files' = Append(files, [path |-> path, state |-> "open"])
           /\ disk' = disk \cup {path}
           /\ IF Has(name)
              THEN Step(t, Done(f, Envelope("error",
                           Msg("Server '{name}' already running.", name, NoPort, 0))))
              ELSE IF sp \notin ExistingPaths
              THEN Step(t, Done(f, Envelope("error",
                           Msg("Script not found: {script_path}", sp, NoPort, 0))))
              ELSE Step(t, [f EXCEPT !.pc = "port", !.script = sp, !.port = port,
                                     !.log = log, !.kwargs = kwargs])
    /\ UNCHANGED <<servers, procs>>

\* lines 92-97: the already-running check and the script check
StartBegin(t, name, script, port, log, kwargs) ==
    /\ frame[t].pc = "idle"
    /\ LET f == [IdleFrame EXCEPT !.op = "start", !.name = name]
           sp == Abspath(script)
       IN  IF Has(name)
           THEN Step(t, Done(f, Envelope("error",
                        Msg("Server '{name}' already running.", name, NoPort, 0))))
           ELSE IF sp \notin ExistingPaths
           THEN Step(t, Done(f, Envelope("error",
                        Msg("Script not found: {script_path}", sp, NoPort, 0))))
           ELSE /\ Len(files) < MaxLaunches
                /\ Step(t, [f EXCEPT !.pc = "port", !.script = sp, !.port = port,
                                     !.log = log, !.kwargs = kwargs])
    /\ UNCHANGED <<servers, procs, files, disk>>

\* line 99: port = port or self._find_free_port()
StartPort(t) ==
    /\ frame[t].pc = "port"
    /\ LET f == frame[t]
       IN  IF f.port # NoPort
           THEN Step(t, [f EXCEPT !.pc = "open"])
           ELSE \E r \in FindFreePort(PortStart, PortEnd, MaxAttempts) :
                   IF r.ok
                   THEN Step(t, [Did(f, "probe") EXCEPT !.pc = "open", !.port = r.port])
                   ELSE Step(t, Done(Did(f, "probe"), Raised("RuntimeError")))
    /\ UNCHANGED <<servers, procs, files, disk>>

\* lines 100-101: log_file = log_file or f"{name}_server.log"; f = open(log_file, "w")
StartOpen(t) ==
    /\ frame[t].pc = "open"
    /\ LET f == frame[t]
           path == IF f.log # NoLog THEN f.log ELSE DefaultLog(f.name)
       IN  IF path \in Unwritable
           THEN /\ Step(t, Done([f EXCEPT !.log = path], Raised("OSError")))
                /\ UNCHANGED <<files, disk>>
           ELSE /\ files' = Append(files, [path |-> path, state |-> "open"])
                /\ disk' = disk \cup {path}
                /\ Step(t, [Did(f, "open") EXCEPT !.pc = "spawn", !.log = path,
                                                  !.fh = Len(files) + 1])
    /\ UNCHANGED <<servers, procs>>

\* StartSpawn with the registry insertion of line 116 done before Popen
StartSpawnRegisterFirst(t) ==
    /\ frame[t].pc = "spawn"
    /\ LET f == frame[t]
           rec == [name |-> f.name, proc |-> Len(procs) + 1, file |-> f.fh,
                   log_file |-> f.log, port |-> f.port, args |-> f.kwargs,
                   script_path |-> f.script]
       IN  /\ servers' = Put(servers, rec)
           /\ \E spawned \in BOOLEAN :
                 IF spawned
                 THEN /\ procs' = Append(procs,
                            [state |-> "running", port |-> f.port, listening |-> FALSE,
                             argv |-> <<"python", f.script, IntStr(f.port)>> \o ExtraArgs(f.kwargs)])
                      /\ Step(t, [Did(f, "spawn") EXCEPT !.pc = "register",
                                                         !.pid = Len(procs) + 1])
                 ELSE /\ Step(t, Done(f, Raised("OSError")))
                      /\ UNCHANGED procs
    /\ UNCHANGED <<files, disk>>

\* lines 103-114: build extra_args, subprocess.Popen([...], stdout=f, stderr=f)
StartSpawn(t) ==
    /\ frame[t].pc = "spawn"
    /\ LET f == frame[t]
       IN  \E spawned \in BOOLEAN :
              IF spawned
              THEN /\ procs' = Append(procs,
                         [state |-> "running", port |-> f.port, listening |-> FALSE,
                          argv |-> <<"python", f.script, IntStr(f.port)>> \o ExtraArgs(f.kwargs)])
                   /\ Step(t, [Did(f, "spawn") EXCEPT !.pc = "register",
                                                      !.pid = Len(procs) + 1])
              ELSE /\ Step(t, Done(f, Raised("OSError")))
                   /\ UNCHANGED procs
    /\ UNCHANGED <<servers, files, disk>>

\* StartRegister that keeps the record already stored under the name
StartRegisterKeepFirst(t) ==
    /\ frame[t].pc = "register"
    /\ LET f == frame[t]
       IN  /\ servers' = IF Has(f.name) THEN servers
                         ELSE Put(servers, [name |-> f.name, proc |-> f.pid, file |-> f.fh,
                                            log_file |-> f.log, port |-> f.port,
                                            args |-> f.kwargs, script_path |-> f.script])
           /\ Step(t, [Did(f, "insert") EXCEPT !.pc = "sleep"])
    /\ UNCHANGED <<procs, files, disk>>

\* lines 116-123: self._servers[name] = {...}
StartRegister(t) ==
    /\ frame[t].pc = "register"
    /\ LET f == frame[t]
       IN  /\ servers' = Put(servers, [name |-> f.name, proc |-> f.pid, file |-> f.fh,
                                       log_file |-> f.log, port |-> f.port,
                                       args |-> f.kwargs, script_path |-> f.script])
           /\ Step(t, [Did(f, "insert") EXCEPT !.pc = "sleep"])
    /\ UNCHANGED <<procs, files, disk>>

\* StartHealth that drops the record again when the health check fails
StartHealthRollback(t) ==
    /\ frame[t].pc = "sleep"
    /\ LET f == frame[t]
       IN  \E healthy \in CheckHealth(f.name, f.port) :
              /\ servers' = IF healthy THEN servers ELSE Pop(servers, f.name)
              /\ Step(t, Done(Did(Did(f, "sleep"), "health"),
                      [Envelope(IF healthy THEN "ok" ELSE "warning",
                                Msg("Started '{name}' on port {port} (PID={proc.pid})",
                                    f.name, f.port, f.pid))
                          EXCEPT !.healthy = healthy, !.port = f.port, !.log = f.log]))
    /\ UNCHANGED <<procs, files, disk>>

\* lines 125-133: time.sleep(2); healthy = self.check_health(name, port); return {...}
StartHealth(t) ==
    /\ frame[t].pc = "sleep"
    /\ LET f == frame[t]
       IN  \E healthy \in CheckHealth(f.name, f.port) :
              Step(t, Done(Did(Did(f, "sleep"), "health"),
                   [Envelope(IF healthy THEN "ok" ELSE "warning",
                             Msg("Started '{name}' on port {port} (PID={proc.pid})",
                                 f.name, f.port, f.pid))
                       EXCEPT !.healthy = healthy, !.port = f.port, !.log = f.log]))
    /\ UNCHANGED <<servers, procs, files, disk>>

-----------------------------------------------------------------------------------------------------------------------------------------------------
\* stop(name), called by the caller or by stop_all for each name in turn

\* stop ends with outcome out: inside stop_all the outcome joins the result list
\* and the comprehension goes on, otherwise the caller is handed it
Finish(f, out) ==
    IF f.op = "stop_all"
    THEN [f EXCEPT !.pc = "next", !.results = Append(@, out), !.fh = 0, !.pid = 0,
                   !.port = NoPort]
    ELSE Done(f, out)

\* StopEnter without the `proc.poll() is not None` shortcut of lines 155-157
StopEnterNoPoll(t, f) ==
    IF ~Has(f.name)
    THEN /\ Step(t, Finish(f, Envelope("error",
                 Msg("No server named '{name}' found.", f.name, NoPort, 0))))
         /\ UNCHANGED servers
    ELSE LET info == Get(f.name)
             g == [f EXCEPT !.pid = info.proc, !.fh = info.file, !.port = info.port]
         IN  /\ Step(t, [g EXCEPT !.pc = "terminate"])
             /\ UNCHANGED servers

\* StopEnter without the not-found check of lines 148-149: self._servers[name]
\* raises KeyError
StopEnterKeyError(t, f) ==
    IF ~Has(f.name)
    THEN /\ Step(t, Finish(f, Raised("KeyError")))
         /\ UNCHANGED servers
    ELSE LET info == Get(f.name)
             g == [f EXCEPT !.pid = info.proc, !.fh = info.file, !.port = info.port]
         IN  IF procs[info.proc].state = "exited"
             THEN /\ servers' = Pop(servers, f.name)
                  /\ Step(t, Finish(Did(Did(g, "poll"), "pop"), Envelope("ok",
                         Msg("Process for '{name}' already stopped.", f.name, NoPort, 0))))
             ELSE /\ Step(t, [Did(g, "poll") EXCEPT !.pc = "terminate"])
                  /\ UNCHANGED servers

\* lines 148-157: the not-found check, info = self._servers[name], proc.poll()
StopEnter(t, f) ==
    IF ~Has(f.name)
    THEN /\ Step(t, Finish(f, Envelope("error",
                 Msg("No server named '{name}' found.", f.name, NoPort, 0))))
         /\ UNCHANGED servers
    ELSE LET info == Get(f.name)
             g == [f EXCEPT !.pid = info.proc, !.fh = info.file, !.port = info.port]
         IN  IF procs[info.proc].state = "exited"
             THEN /\ servers' = Pop(servers, f.name)
                  /\ Step(t, Finish(Did(Did(g, "poll"), "pop"), Envelope("ok",
                         Msg("Process for '{name}' already stopped.", f.name, NoPort, 0))))
             ELSE /\ Step(t, [Did(g, "poll") EXCEPT !.pc = "terminate"])
                  /\ UNCHANGED servers

StopBegin(t, name) ==
    /\ frame[t].pc = "idle"
    /\ StopEnter(t, [IdleFrame EXCEPT !.op = "stop", !.name = name])
    /\ UNCHANGED <<procs, files, disk>>

\* StopTerminate that closes the log stream with the signal, before the wait
StopTerminateClosing(t) ==
    /\ frame[t].pc = "terminate"
    /\ files' = [files EXCEPT ![frame[t].fh].state = "closed"]
    /\ Step(t, [Did(frame[t], "terminate") EXCEPT !.pc = "wait"])
    /\ UNCHANGED <<servers, procs, disk>>

\* StopTerminate that removes the record with the signal, before the wait
StopTerminatePopFirst(t) ==
    /\ frame[t].pc = "terminate"
    /\ servers' = Pop(servers, frame[t].name)
    /\ Step(t, [Did(frame[t], "terminate") EXCEPT !.pc = "wait"])
    /\ UNCHANGED <<procs, files, disk>>

\* line 160: proc.terminate()
StopTerminate(t) ==
    /\ frame[t].pc = "terminate"
    /\ Step(t, [Did(frame[t], "terminate") EXCEPT !.pc = "wait"])
    /\ UNCHANGED <<servers, procs, files, disk>>

\* StopWait that kills a child which outlived the wait and goes on to close and pop
StopWaitKill(t) ==
    /\ frame[t].pc = "wait"
    /\ LET f == frame[t]
       IN  /\ procs' = [procs EXCEPT ![f.pid] = [state |-> "exited", port |-> NoPort,
                                                 listening |-> FALSE, argv |-> << >>]]
           /\ Step(t, [Did(f, "wait") EXCEPT !.pc = "close"])
    /\ UNCHANGED <<servers, files, disk>>

\* StopWait that forgets the record when the wait times out
StopWaitForget(t) ==
    /\ frame[t].pc = "wait"
    /\ LET f == frame[t]
       IN  IF procs[f.pid].state = "exited"
           THEN /\ Step(t, [Did(f, "wait") EXCEPT !.pc = "close"])
                /\ UNCHANGED servers
           ELSE /\ Step(t, Finish(Did(f, "wait"), Envelope("error",
                        Msg("str(e)", "TimeoutExpired", NoPort, 0))))
                /\ servers' = Pop(servers, f.name)
    /\ UNCHANGED <<procs, files, disk>>

\* lines 161, 165-166: proc.wait(timeout=3) returns once the child has exited and
\* raises TimeoutExpired when the child outlives the three seconds
StopWait(t) ==
    /\ frame[t].pc = "wait"
    /\ LET f == frame[t]
       IN  IF procs[f.pid].state = "exited"
           THEN Step(t, [Did(f, "wait") EXCEPT !.pc = "close"])
           ELSE Step(t, Finish(Did(f, "wait"), Envelope("error",
                        Msg("str(e)", "TimeoutExpired", NoPort, 0))))
    /\ UNCHANGED <<servers, procs, files, disk>>

\* line 162: info["file"].close()
StopClose(t) ==
    /\ frame[t].pc = "close"
    /\ LET f == frame[t]
       IN  /\ files' = [files EXCEPT ![f.fh].state = "closed"]
           /\ Step(t, [Did(f, "close") EXCEPT !.pc = "pop"])
    /\ UNCHANGED <<servers, procs, disk>>

\* lines 163-166: self._servers.pop(name); return {"status": "ok", ...}
\* (a KeyError from pop is caught by the except clause like any exception)
StopPop(t) ==
    /\ frame[t].pc = "pop"
    /\ LET f == frame[t]
       IN  IF Has(f.name)
           THEN /\ servers' = Pop(servers, f.name)
                /\ Step(t, Finish(Did(f, "pop"), Envelope("ok",
                        Msg("Stopped '{name}' (port={port}, PID={proc.pid}).",
                            f.name, f.port, f.pid))))
           ELSE /\ Step(t, Finish(f, Envelope("error",
                        Msg("str(e)", "KeyError", NoPort, 0))))
                /\ UNCHANGED servers
    /\ UNCHANGED <<procs, files, disk>>

-----------------------------------------------------------------------------
\* stop_all()

\* list(self._servers.keys())
Keys(reg) == [i \in 1..Len(reg) |-> reg[i].name]

\* lines 170-172: the empty check, then the snapshot of the keys
StopAllBegin(t) ==
    /\ frame[t].pc = "idle"
    /\ LET f == [IdleFrame EXCEPT !.op = "stop_all"]
       IN  IF servers = << >>
           THEN Step(t, Done(f, Envelope("ok", Msg("No servers running.", "", NoPort, 0))))
           ELSE Step(t, [f EXCEPT !.pc = "next", !.queue = Keys(servers)])
    /\ UNCHANGED <<servers, procs, files, disk>>

\* StopAllNext that gives up at the first stop that returned 'error'
StopAllNextAbortOnError(t) ==
    /\ frame[t].pc = "next"
    /\ LET f == frame[t]
           n == Len(f.results)
       IN  IF n = Len(f.queue) \/ (n > 0 /\ f.results[n].status = "error")
           THEN /\ Step(t, Done([f EXCEPT !.name = ""], Value(f.results)))
                /\ UNCHANGED servers
           ELSE StopEnter(t, [f EXCEPT !.name = f.queue[n + 1]])
    /\ UNCHANGED <<procs, files, disk>>

\* lines 172-173: the next self.stop(name) of the comprehension over the snapshot
\* (f.queue, of which Len(f.results) names are done), or return results
StopAllNext(t) ==
    /\ frame[t].pc = "next"
    /\ LET f == frame[t]
           n == Len(f.results)
       IN  IF n = Len(f.queue)
           THEN /\ Step(t, Done([f EXCEPT !.name = ""], Value(f.results)))
                /\ UNCHANGED servers
           ELSE StopEnter(t, [f EXCEPT !.name = f.queue[n + 1]])
    /\ UNCHANGED <<procs, files, disk>>

-----------------------------------------------------------------------------
\* show_logs(name, n, remove_windows_warnings) and _filter_logs

\* A log line is the sequence of its pieces: whitespace, a level prefix, a noise
\* trigger or other text; `t in line` and startswith are decided piece by piece.
LOG_PREFIXES == {"INFO:", "WARNING:", "ERROR:", "DEBUG:"}
NOISE_TRIGGERS == {"[WinError 10054]", "ConnectionResetError",
                   "_ProactorBasePipeTransport._call_connection_lost"}
Whitespace == {" ", "\n"}

\* any(t in line for t in NOISE_TRIGGERS)
IsNoise(line) == \E i \in 1..Len(line) : line[i] \in NOISE_TRIGGERS

RECURSIVE LStrip(_)
\* line.lstrip()
LStrip(line) == IF line # << >> /\ Head(line) \in Whitespace THEN LStrip(Tail(line))
                ELSE line

\* line.lstrip().startswith(LOG_PREFIXES)
Resumes(line) == LStrip(line) # << >> /\ Head(LStrip(line)) \in LOG_PREFIXES

\* not ln.strip()
IsBlank(line) == \A i \in 1..Len(line) : line[i] \in Whitespace

RECURSIVE NoisePassDropResume(_, _)
\* NoisePass that ends the suppression at the resuming line without keeping it
NoisePassDropResume(lines, skipping) ==
    IF lines = << >> THEN << >>
    ELSE LET line == Head(lines)
         IN  IF ~skipping
             THEN IF IsNoise(line) THEN NoisePassDropResume(Tail(lines), TRUE)
                  ELSE <<line>> \o NoisePassDropResume(Tail(lines), FALSE)
             ELSE IF Resumes(line) THEN NoisePassDropResume(Tail(lines), FALSE)
                  ELSE NoisePassDropResume(Tail(lines), TRUE)

RECURSIVE NoisePass(_, _)
\* lines 213-223: the first loop, with its flag `skipping`
NoisePass(lines, skipping) ==
    IF lines = << >> THEN << >>
    ELSE LET line == Head(lines)
         IN  IF ~skipping
             THEN IF IsNoise(line) THEN NoisePass(Tail(lines), TRUE)
                  ELSE <<line>> \o NoisePass(Tail(lines), FALSE)
             ELSE IF Resumes(line) THEN <<line>> \o NoisePass(Tail(lines), FALSE)
                  ELSE NoisePass(Tail(lines), TRUE)

\* Compact whose prev_blank is never set: every line is kept
CompactNoTrack(lines, prevBlank) == lines

RECURSIVE Compact(_, _)
\* lines 224-228: the second loop, with its flag prev_blank
Compact(lines, prevBlank) ==
    IF lines = << >> THEN << >>
    ELSE LET ln == Head(lines)
         IN  (IF ~IsBlank(ln) \/ ~prevBlank THEN <<ln>> ELSE << >>)
                 \o Compact(Tail(lines), IsBlank(ln))

\* _filter_logs(lines)
FilterLogs(lines) == Compact(NoisePass(lines, FALSE), FALSE)

\* lines[-n:] for a list and an int n
LastN(lines, n) ==
    LET len == Len(lines)
        from == IF n > 0 THEN (IF n >= len THEN 1 ELSE len - n + 1)
                ELSE IF n = 0 THEN 1
                ELSE (IF -n >= len THEN len + 1 ELSE -n + 1)
    IN  SubSeq(lines, from, len)

\* what a child may have written to its log by the time it is read
LogContents == {<< >>,
                <<<<"INFO:", " ", "text", "\n">>, <<"ConnectionResetError", "\n">>,
                  <<"text", "\n">>>>}
TailArgs == {80}

\* The log files show_logs is read against: up to MaxLines lines, each one of
\* LogLines (blank, text, noise, a level line, an indented level line, a level line
\* that names a noise trigger, a line of spaces).
MaxLines == 4
LogLines == {<<"\n">>,
             <<"text", "\n">>,
             <<"ConnectionResetError", "\n">>,
             <<"ERROR:", " ", "text", "\n">>,
             <<" ", "INFO:", " ", "text", "\n">>,
             <<"WARNING:", " ", "[WinError 10054]", "\n">>,
             <<" ", "\n">>}
LogInputs == UNION {[1..k -> LogLines] : k \in 0..MaxLines}
LogTailArgs == {0, 1, 2, 80}

\* lines 192-203; f.lines is what readlines() returned
ShowLogs(t, name, n, remove, content) ==
    /\ frame[t].pc = "idle"
    /\ LET f == [IdleFrame EXCEPT !.op = "show_logs", !.name = name, !.n = n,
                                  !.remove = remove]
           path == IF Has(name) THEN Get(name).log_file ELSE DefaultLog(name)
           tail == LastN(content, n)
           lines == IF remove THEN FilterLogs(tail) ELSE tail
       IN  IF path \notin disk
           THEN Step(t, Done(f, Envelope("error",
                        Msg("No logs found for '{name}'.", name, NoPort, 0))))
           ELSE Step(t, Done([f EXCEPT !.lines = content],
                             [Envelope("ok", NoMsg) EXCEPT !.value = lines,
                                                           !.log = path]))
    /\ UNCHANGED <<servers, procs, files, disk>>

-----------------------------------------------------------------------------
\* check_health, check_all, list_tools, get_tool_server_dict, get_server_port_dict,
\* test_tool

\* the tools each bundled script registers with @mcp.tool
ScriptTools(script) ==
    CASE script = "/w/random_server.py" -> <<"numbers", "greet">>
      [] script = "/w/ascii_server.py"  -> <<"ascii_art", "mirror">>
      [] OTHER                          -> << >>

\* the catalog served on a bound port: that of the child listening there
ToolsAt(port) ==
    LET k == CHOOSE k \in 1..Len(procs) :
                 procs[k].state = "running" /\ procs[k].listening /\ procs[k].port = port
    IN  ScriptTools(procs[k].argv[2])

\* the exception a failed round trip raises in the client
NetError(r) == IF r = "timeout" THEN "TimeoutError" ELSE "ConnectionError"

\* the frame of check_health(name, port) or list_tools(name, port) once it has
\* resolved its port (lines 233-235, 260-262): no client call is made for an
\* unregistered name without a port
Probe(f, name, port) ==
    IF ~Has(name) /\ port = NoPort THEN f
    ELSE [Did(f, "call") EXCEPT !.port = IF port # NoPort THEN port ELSE Get(name).port]

\* check_health that records the port it was asked to probe
CheckHealthCallStoring(t, name, port) ==
    /\ frame[t].pc = "idle"
    /\ \E healthy \in CheckHealth(name, port) :
          Step(t, Done(Probe([IdleFrame EXCEPT !.op = "check_health", !.name = name],
                             name, port),
                       Value(healthy)))
    /\ servers' = IF Has(name) /\ port # NoPort
                  THEN [servers EXCEPT ![IndexOf(servers, name)].port = port]
                  ELSE servers
    /\ UNCHANGED <<procs, files, disk>>

\* check_health with run_async outside the try block, as in list_tools
CheckHealthCallUnguarded(t, name, port) ==
    /\ frame[t].pc = "idle"
    /\ LET f == Probe([IdleFrame EXCEPT !.op = "check_health", !.name = name], name, port)
       IN  IF f.trace = << >>
           THEN Step(t, Done(f, Value(FALSE)))
           ELSE \E r \in RoundTrip(f.port) :
                   Step(t, Done(f, IF r = "ok" THEN Value(TRUE) ELSE Raised(NetError(r))))
    /\ UNCHANGED <<servers, procs, files, disk>>

\* lines 231-247
CheckHealthCall(t, name, port) ==
    /\ frame[t].pc = "idle"
    /\ \E healthy \in CheckHealth(name, port) :
          Step(t, Done(Probe([IdleFrame EXCEPT !.op = "check_health", !.name = name],
                             name, port),
                       Value(healthy)))
    /\ UNCHANGED <<servers, procs, files, disk>>

\* check_all that probes the first record's port for every name
CheckAllFirstPort(t) ==
    /\ frame[t].pc = "idle"
    /\ LET f == [IdleFrame EXCEPT !.op = "check_all"]
       IN  IF servers = << >>
           THEN Step(t, Done(f, Envelope("ok", Msg("No servers running.", "", NoPort, 0))))
           ELSE \E results \in [RegNames(servers) -> BOOLEAN] :
                   /\ \A n \in RegNames(servers) :
                         results[n] \in CheckHealth(n, servers[1].port)
                   /\ Step(t, Done(f, Value(results)))
    /\ UNCHANGED <<servers, procs, files, disk>>

\* lines 249-256
CheckAll(t) ==
    /\ frame[t].pc = "idle"
    /\ LET f == [IdleFrame EXCEPT !.op = "check_all"]
       IN  IF servers = << >>
           THEN Step(t, Done(f, Envelope("ok", Msg("No servers running.", "", NoPort, 0))))
           ELSE \E results \in [RegNames(servers) -> BOOLEAN] :
                   /\ \A n \in RegNames(servers) :
                         results[n] \in CheckHealth(n, Get(n).port)
                   /\ Step(t, Done(f, Value(results)))
    /\ UNCHANGED <<servers, procs, files, disk>>

\* ListTools without the early return of lines 260-261: self._servers[name] raises
\* KeyError for an unregistered name
ListToolsNoGuard(name, port) ==
    IF ~Has(name) /\ port = NoPort THEN {Raised("KeyError")}
    ELSE LET p == IF port # NoPort THEN port ELSE Get(name).port
         IN  {IF r = "ok" THEN Value(ToolsAt(p)) ELSE Raised(NetError(r)) :
                 r \in RoundTrip(p)}

\* list_tools(name, port): its outcomes, a returned catalog or a raised exception
ListTools(name, port) ==
    IF ~Has(name) /\ port = NoPort THEN {Value(<< >>)}
    ELSE LET p == IF port # NoPort THEN port ELSE Get(name).port
         IN  {IF r = "ok" THEN Value(ToolsAt(p)) ELSE Raised(NetError(r)) :
                 r \in RoundTrip(p)}

\* lines 258-271
ListToolsCall(t, name, port) ==
    /\ frame[t].pc = "idle"
    /\ \E out \in ListTools(name, port) :
          Step(t, Done(Probe([IdleFrame EXCEPT !.op = "list_tools", !.name = name],
                             name, port),
                       out))
    /\ UNCHANGED <<servers, procs, files, disk>>

RECURSIVE ToolServerDictReset(_, _, _)
\* ToolServerDict with `result = {}` inside the loop over the servers
ToolServerDictReset(keys, catalog, result) ==
    IF keys = << >> THEN result
    ELSE LET name == Head(keys)
             tools == catalog[name]
             names == {tools[i] : i \in 1..Len(tools)}
         IN  ToolServerDictReset(Tail(keys), catalog, [tl \in names |-> name])

RECURSIVE ToolServerDictFirstWins(_, _, _)
\* ToolServerDict with result.setdefault(tool.name, server_name)
ToolServerDictFirstWins(keys, catalog, result) ==
    IF keys = << >> THEN result
    ELSE LET name == Head(keys)
             tools == catalog[name]
             names == {tools[i] : i \in 1..Len(tools)}
         IN  ToolServerDictFirstWins(Tail(keys), catalog,
                 [tl \in DOMAIN result \cup names |->
                     IF tl \in DOMAIN result THEN result[tl] ELSE name])

RECURSIVE ToolServerDict(_, _, _)
\* lines 275-280: the loop over self._servers.keys(), given each server's catalog;
\* result[tool.name] = server_name overwrites an earlier server's entry
ToolServerDict(keys, catalog, result) ==
    IF keys = << >> THEN result
    ELSE LET name == Head(keys)
             tools == catalog[name]
             names == {tools[i] : i \in 1..Len(tools)}
         IN  ToolServerDict(Tail(keys), catalog,
                 [tl \in DOMAIN result \cup names |->
                     IF tl \in names THEN name ELSE result[tl]])

\* lines 273-280
GetToolServerDict(t) ==
    /\ frame[t].pc = "idle"
    /\ LET f == [IdleFrame EXCEPT !.op = "get_tool_server_dict"]
       IN  \E outs \in [RegNames(servers) -> {"ok", "timeout", "refused"}] :
              /\ \A n \in RegNames(servers) : outs[n] \in RoundTrip(Get(n).port)
              /\ IF \E i \in 1..Len(servers) : outs[servers[i].name] # "ok"
                 THEN LET i == CHOOSE i \in 1..Len(servers) :
                                  /\ outs[servers[i].name] # "ok"
                                  /\ \A j \in 1..(i - 1) : outs[servers[j].name] = "ok"
                      IN  Step(t, Done(f, Raised(NetError(outs[servers[i].name]))))
                 ELSE Step(t, Done(f, Value(ToolServerDict(Keys(servers),
                              [n \in RegNames(servers) |-> ToolsAt(Get(n).port)],
                              << >>))))
    /\ UNCHANGED <<servers, procs, files, disk>>

\* GetServerPortDict that first forgets the records whose process has exited
GetServerPortDictPruning(t) ==
    /\ frame[t].pc = "idle"
    /\ servers' = SelectSeq(servers, LAMBDA r : procs[r.proc].state = "running")
    /\ Step(t, Done([IdleFrame EXCEPT !.op = "get_server_port_dict"],
                    Value([n \in RegNames(servers') |-> Get(n).port])))
    /\ UNCHANGED <<procs, files, disk>>

\* lines 282-284
GetServerPortDict(t) ==
    /\ frame[t].pc = "idle"
    /\ Step(t, Done([IdleFrame EXCEPT !.op = "get_server_port_dict"],
                    Value([n \in RegNames(servers) |-> Get(n).port])))
    /\ UNCHANGED <<servers, procs, files, disk>>

ToolArgs == {"greet", "nope"}

\* TestTool with run_async outside the try block, as in list_tools
TestToolUnguarded(t, name, tool) ==
    /\ frame[t].pc = "idle"
    /\ LET f == [IdleFrame EXCEPT !.op = "test_tool", !.name = name]
           g == Did(f, "call")
       IN  IF ~Has(name)
           THEN Step(t, Done(f, Envelope("error",
                        Msg("Server '{server_name}' not running.", name, NoPort, 0))))
           ELSE LET port == Get(name).port
                    tools == ToolsAt(port)
                IN  \E r \in RoundTrip(port) :
                       IF r # "ok"
                       THEN Step(t, Done(g, Raised(NetError(r))))
                       ELSE IF \E i \in 1..Len(tools) : tools[i] = tool
                       THEN Step(t, Done(g, [Envelope("ok", NoMsg) EXCEPT !.value = <<tool>>]))
                       ELSE Step(t, Done(g, Raised("ToolError")))
    /\ UNCHANGED <<servers, procs, files, disk>>

\* lines 286-305: the registry check, then the client call inside try/except;
\* call_tool raises for a tool the server does not have
TestTool(t, name, tool) ==
    /\ frame[t].pc = "idle"
    /\ LET f == [IdleFrame EXCEPT !.op = "test_tool", !.name = name]
           g == Did(f, "call")
       IN  IF ~Has(name)
           THEN Step(t, Done(f, Envelope("error",
                        Msg("Server '{server_name}' not running.", name, NoPort, 0))))
           ELSE LET port == Get(name).port
                    tools == ToolsAt(port)
                IN  \E r \in RoundTrip(port) :
                       IF r # "ok"
                       THEN Step(t, Done(g, Envelope("error",
                                    Msg("str(e)", NetError(r), NoPort, 0))))
                       ELSE IF \E i \in 1..Len(tools) : tools[i] = tool
                       THEN Step(t, Done(g, [Envelope("ok", NoMsg) EXCEPT !.value = <<tool>>]))
                       ELSE Step(t, Done(g, Envelope("error",
                                    Msg("str(e)", "ToolError", NoPort, 0))))
    /\ UNCHANGED <<servers, procs, files, disk>>

\* restart(name, port): the class of lines 14-455 defines no such method, so the
\* attribute lookup on the manager raises AttributeError before anything is done
Restart(t, name, port) ==
    /\ frame[t].pc = "idle"
    /\ Step(t, Done([IdleFrame EXCEPT !.op = "restart", !.name = name],
                    Raised("AttributeError")))
    /\ UNCHANGED <<servers, procs, files, disk>>

\* the caller has the outcome and is free to make its next call
Return(t) ==
    /\ frame[t].pc = "return"
    /\ Step(t, IdleFrame)
    /\ UNCHANGED <<servers, procs, files, disk>>

-----------------------------------------------------------------------------
\* What happens outside the manager.

\* what the OS keeps of a child that has exited: no socket, no command line
Exited == [state |-> "exited", port |-> NoPort, listening |-> FALSE, argv |-> << >>]

\* ProcExit after which the record of the process is gone from the registry
ProcExitReaping(k) ==
    /\ procs[k].state = "running"
    /\ procs' = [procs EXCEPT ![k] = Exited]
    /\ servers' = SelectSeq(servers, LAMBDA r : r.proc # k)
    /\ UNCHANGED <<files, disk, frame, controller, ui>>

\* a child exits (on its own, or after the termination signal)
ProcExit(k) ==
    /\ procs[k].state = "running"
    /\ procs' = [procs EXCEPT ![k] = Exited]
    /\ UNCHANGED <<servers, files, disk, frame, controller, ui>>

\* a child binds the port it was given on its command line
ProcListen(k) ==
    /\ procs[k].state = "running"
    /\ ~procs[k].listening
    /\ ~Busy(procs[k].port)
    /\ procs' = [procs EXCEPT ![k].listening = TRUE]
    /\ UNCHANGED <<servers, files, disk, frame, controller, ui>>

\* file objects some record or running handler still refers to
Referenced ==
    {servers[i].file : i \in 1..Len(servers)} \cup {frame[t].fh : t \in Threads}

\* the interpreter finalizes a file object nothing refers to any more
Finalize(h) ==
    /\ files[h].state = "open"
    /\ h \notin Referenced
    /\ files' = [files EXCEPT ![h].state = "closed"]
    /\ UNCHANGED <<servers, procs, disk, frame, controller, ui>>

Environment ==
    \/ \E k \in 1..Len(procs) : ProcExit(k)
    \/ \E k \in 1..Len(procs) : ProcListen(k)
    \/ \E h \in 1..Len(files) : Finalize(h)

-----------------------------------------------------------------------------
\* One caller: calls do not overlap.

Calls(t) ==
    \/ \E name \in Names, script \in ScriptArgs, a \in StartArgs :
            StartBegin(t, name, script, a.port, a.log, a.kwargs)
    \/ StartPort(t)
    \/ StartOpen(t)
    \/ StartSpawn(t)
    \/ StartRegister(t)
    \/ StartHealth(t)
    \/ \E name \in Names : StopBegin(t, name)
    \/ StopTerminate(t)
    \/ StopWait(t)
    \/ StopClose(t)
    \/ StopPop(t)
    \/ StopAllBegin(t)
    \/ StopAllNext(t)
    \/ \E name \in Names, n \in TailArgs, remove \in BOOLEAN, content \in LogContents :
            ShowLogs(t, name, n, remove, content)
    \/ \E name \in Names, port \in PortArgs : CheckHealthCall(t, name, port)
    \/ CheckAll(t)
    \/ \E name \in Names, port \in PortArgs : ListToolsCall(t, name, port)
    \/ GetToolServerDict(t)
    \/ GetServerPortDict(t)
    \/ \E name \in Names, tool \in ToolArgs : TestTool(t, name, tool)
    \/ \E name \in Names, port \in PortArgs : Restart(t, name, port)
    \/ Return(t)

Next == Calls("main") \/ Environment

Spec == Init /\ [][Next]_vars

\* start alone, for every **kwargs of KwargsInputs: what line 109 hands to Popen.
\* The caller begins with the keyword arguments of the call it is about to make and
\* makes every later call without any.
CliInit ==
    /\ servers = << >>
    /\ procs = << >>
    /\ files = << >>
    /\ disk = {}
    /\ \E kw \in KwargsInputs :
          frame = [t \in Threads |->
                      IF t = "main" THEN [IdleFrame EXCEPT !.kwargs = kw] ELSE IdleFrame]
    /\ controller = NewController
    /\ ui = NewView

CliNext ==
    \/ \E name \in Names :
            StartBegin("main", name, "random_server.py", PortStart, NoLog,
                       frame["main"].kwargs)
    \/ StartPort("main")
    \/ StartOpen("main")
    \/ StartSpawn("main")
    \/ StartRegister("main")
    \/ StartHealth("main")
    \/ Return("main")

CliSpec == CliInit /\ [][CliNext]_vars

\* show_logs alone, for every log of LogInputs and every n of LogTailArgs, with the
\* server "a" started (default port, default log file) and its child running.
LogInit ==
    /\ servers = <<[name |-> "a", proc |-> 1, file |-> 1, log_file |-> DefaultLog("a"),
                    port |-> PortStart, args |-> << >>,
                    script_path |-> Abspath("random_server.py")]>>
    /\ procs = <<[state |-> "running", port |-> PortStart, listening |-> FALSE,
                  argv |-> <<"python", Abspath("random_server.py"), IntStr(PortStart)>>]>>
    /\ files = <<[path |-> DefaultLog("a"), state |-> "open"]>>
    /\ disk = {DefaultLog("a")}
    /\ frame = [t \in Threads |-> IdleFrame]
    /\ controller = NewController
    /\ ui = NewView

LogNext ==
    \/ /\ frame["main"].pc = "idle"
       /\ \E name \in Names, n \in LogTailArgs, remove \in BOOLEAN, content \in LogInputs :
              ShowLogs("main", name, n, remove, content)
    \/ Return("main")

LogSpec == LogInit /\ [][LogNext]_vars

\* Two callers whose start('a') calls overlap: nothing in start holds a lock, so the
\* steps of the two calls interleave between the check of line 92 and the insertion
\* of line 116.
RaceNext ==
    \/ \E t \in Threads :
          \/ StartBegin(t, "a", "random_server.py", NoPort, NoLog, << >>)
          \/ StartPort(t)
          \/ StartOpen(t)
          \/ StartSpawn(t)
          \/ StartRegister(t)
          \/ StartHealth(t)
          \/ Return(t)
    \/ Environment

RaceSpec == Init /\ [][RaceNext]_vars

\* The log_file each name is started with when the log path is what matters: "a"
\* always with a caller-supplied path, "b" always with the default.
LaunchLog(name) == IF name = "a" THEN "x.log" ELSE DefaultLog(name)

\* start, stop and show_logs of one caller, every start of a name with its LaunchLog
PathNext ==
    \/ \E name \in Names :
            StartBegin("main", name, "random_server.py", NoPort,
                       (IF LaunchLog(name) = DefaultLog(name) THEN NoLog ELSE LaunchLog(name)),
                       << >>)
    \/ StartPort("main")
    \/ StartOpen("main")
    \/ StartSpawn("main")
    \/ StartRegister("main")
    \/ StartHealth("main")
    \/ \E name \in Names : StopBegin("main", name)
    \/ StopTerminate("main")
    \/ StopWait("main")
    \/ StopClose("main")
    \/ StopPop("main")
    \/ \E name \in Names, n \in TailArgs, remove \in BOOLEAN, content \in LogContents :
            ShowLogs("main", name, n, remove, content)
    \/ Return("main")
    \/ Environment

PathSpec == Init /\ [][PathNext]_vars

-----------------------------------------------------------------------------
(* chatbot_widget.ui.chat_view.ChatView. The chat box is the sequence of its
   children; each method is an operator from the view to the view it leaves.
   Tool-call containers are not part of this model of the view. *)

\* widgets created over a run (bubbles and indicators)
MaxWidgets == 3

\* message texts; NoText is final_text = None
NoText == "None"
Texts == {"", "partial", "final"}
Senders == {"bot", "user"}

RECURSIVE RemoveFirst(_, _)
\* list.remove(w): the first child that is the widget w goes
RemoveFirst(children, w) ==
    IF children = << >> THEN << >>
    ELSE IF Head(children).id = w THEN Tail(children)
    ELSE <<Head(children)>> \o RemoveFirst(Tail(children), w)

\* w in children
InChildren(children, w) == \E i \in 1..Len(children) : children[i].id = w

\* the widget w as it is in children
Child(children, w) == children[CHOOSE i \in 1..Len(children) : children[i].id = w]

\* bubble.update_text(text): the bubble widget w shows text wherever it is
UpdateText(children, w, text) ==
    [i \in 1..Len(children) |->
        IF children[i].id = w THEN [children[i] EXCEPT !.text = text] ELSE children[i]]

\* show_waiting_indicator that appends a spinner whether or not one is shown
show_waiting_indicator_unguarded(v) ==
    [v EXCEPT !.children = Append(@, [kind |-> "spinner", id |-> v.made + 1,
                                      sender |-> "", text |-> ""]),
              !.thinking = v.made + 1,
              !.made = @ + 1]

\* lines 136-152
show_waiting_indicator(v) ==
    IF v.thinking # NoWidget THEN v
    ELSE [v EXCEPT !.children = Append(@, [kind |-> "spinner", id |-> v.made + 1,
                                           sender |-> "", text |-> ""]),
                   !.thinking = v.made + 1,
                   !.made = @ + 1]

\* lines 154-162
hide_waiting_indicator(v) ==
    IF v.thinking = NoWidget THEN v
    ELSE [v EXCEPT !.children = IF InChildren(@, v.thinking)
                                THEN RemoveFirst(@, v.thinking) ELSE @,
                   !.thinking = NoWidget]

\* lines 164-169
receive_message(v, text, sender) ==
    LET w == IF sender # "user" THEN hide_waiting_indicator(v) ELSE v
    IN  [w EXCEPT !.children = Append(@, [kind |-> "bubble", id |-> v.made + 1,
                                          sender |-> sender, text |-> text]),
                  !.made = @ + 1]

\* lines 171-177; the message id returned is v.made + 1
start_stream(v, sender, initial_text) ==
    [v EXCEPT !.streams = @ \cup {v.made + 1},
              !.children = Append(@, [kind |-> "bubble", id |-> v.made + 1,
                                      sender |-> sender, text |-> initial_text]),
              !.made = @ + 1]

\* lines 179-183
stream_update(v, message_id, text) ==
    IF message_id \in v.streams
    THEN [v EXCEPT !.children = UpdateText(@, message_id, text)]
    ELSE v

\* lines 185-197
end_stream(v, message_id, final_text) ==
    LET popped == [v EXCEPT !.streams = @ \ {message_id}]
        shown == IF message_id \in v.streams
                 THEN LET upd == IF final_text # NoText
                                 THEN UpdateText(v.children, message_id, final_text)
                                 ELSE v.children
                      IN  [popped EXCEPT !.children =
                              IF InChildren(upd, message_id)
                              THEN Append(RemoveFirst(upd, message_id),
                                          Child(upd, message_id))
                              ELSE upd]
                 ELSE popped
    IN  IF shown.streams = {} THEN hide_waiting_indicator(shown) ELSE shown

\* lines 121-135 (the pruning of the tool containers aside)
set_busy(v, busy) ==
    LET w == [v EXCEPT !.disabled = busy]
    IN  IF ~busy THEN [hide_waiting_indicator(w) EXCEPT !.streams = {}] ELSE w

\* the view after method m was called on it
Called(v, m) == [v EXCEPT !.last = m]

\* a call on the view alone
ViewStep(v) ==
    /\ ui' = v
    /\ UNCHANGED <<servers, procs, files, disk, frame, controller>>

ShowWaitingIndicator ==
    /\ ui.thinking = NoWidget => ui.made < MaxWidgets
    /\ ViewStep(Called(show_waiting_indicator(ui), "show_waiting_indicator"))

HideWaitingIndicator ==
    ViewStep(Called(hide_waiting_indicator(ui), "hide_waiting_indicator"))

ReceiveMessage(text, sender) ==
    /\ ui.made < MaxWidgets
    /\ ViewStep(Called(receive_message(ui, text, sender), "receive_message(" \o sender \o ")"))

StartStream(sender) ==
    /\ ui.made < MaxWidgets
    /\ ViewStep(Called(start_stream(ui, sender, ""), "start_stream"))

StreamUpdate(message_id, text) ==
    ViewStep(Called(stream_update(ui, message_id, text), "stream_update"))

EndStream(message_id, final_text) ==
    ViewStep(Called(end_stream(ui, message_id, final_text), "end_stream"))

SetBusy(busy) ==
    ViewStep(Called(set_busy(ui, busy), IF busy THEN "set_busy(True)" ELSE "set_busy(False)"))

\* the methods of the view in any order, with any stream id ever handed out
ViewNext ==
    \/ ShowWaitingIndicator
    \/ HideWaitingIndicator
    \/ \E text \in {"final"}, sender \in Senders : ReceiveMessage(text, sender)
    \/ \E sender \in {"bot"} : StartStream(sender)
    \/ \E id \in 1..MaxWidgets, text \in {"partial"} : StreamUpdate(id, text)
    \/ \E id \in 1..MaxWidgets, text \in {"final", NoText} : EndStream(id, text)
    \/ \E busy \in BOOLEAN : SetBusy(busy)

ViewSpec == Init /\ [][ViewNext]_vars

-----------------------------------------------------------------------------
(* chatbot_widget.controller.chat_mcp_controller.ChatMCPController: handle_input
   and the conversation it starts. handle_input runs on the kernel's thread up to
   the first await of _run_conversation; from then on the conversation advances
   event by event (pc "streaming", then "fallback" while agent.ainvoke is awaited),
   and another handle_input call may be served between two of its steps. *)

\* handle_input calls over a run
MaxInputs == 3

\* the kinds of message: whitespace only, a slash-command, anything else
Messages == {"blank", "command", "text"}

\* what the stream of agent events can raise: an error naming unsupported
\* streaming, an AttributeError (or an error naming astream), any other error
StreamErrors == {"unsupported", "attribute", "other"}

CtlStep(c, v) ==
    /\ controller' = c
    /\ ui' = v
    /\ UNCHANGED <<servers, procs, files, disk, frame>>

\* lines 298-300: _handle_error(exc, stream_id)
handle_error(v, stream_id) ==
    receive_message(end_stream(v, stream_id, "error"), "error", "bot")

\* lines 223-227: the finally clause of _run_conversation, on the controller
Finally(c) ==
    [c EXCEPT !.busy = FALSE, !.tool_run_lookup = << >>, !.pending_calls = << >>,
              !.runs = @ - 1, !.pc = "idle", !.stream = NoWidget, !.partial = FALSE,
              !.reported = << >>]

\* the conversation ends: the finally clause on the controller c, then the view v
\* after ui.set_busy(False)
Ends(c, v) == CtlStep(Finally(c), Called(set_busy(v, FALSE), "set_busy(False)"))

\* the conversation ends with an exception leaving _run_conversation: the finally
\* clause, then the except clause of handle_input (lines 159-160)
EndsRaising(c, v) ==
    CtlStep(Finally(c),
            Called(handle_error(set_busy(v, FALSE), c.stream), "receive_message(bot)"))

\* lines 141-159, for a message that passed the _busy test: setup, then the start of
\* the conversation up to its first await
StartConversation(c) ==
    \E setup_ok \in BOOLEAN :
       IF ~setup_ok
       THEN CtlStep([c EXCEPT !.busy = FALSE],
                    Called(receive_message(set_busy(ui, FALSE), "setup error", "bot"),
                           "receive_message(bot)"))
       ELSE LET v == show_waiting_indicator(set_busy(ui, TRUE))
            IN  CtlStep([c EXCEPT !.busy = TRUE, !.runs = @ + 1, !.pc = "streaming",
                                  !.stream = v.made + 1, !.partial = FALSE],
                        Called(start_stream(v, "bot", ""), "start_stream"))

\* HandleInput without the _busy test of lines 137-139
HandleInputNoBusyTest(msg) ==
    /\ controller.inputs < MaxInputs
    /\ LET c == [controller EXCEPT !.inputs = @ + 1, !.msg = msg]
       IN  CASE msg = "blank" -> CtlStep(c, ui)
             [] msg = "command" ->
                  \E raised \in BOOLEAN :
                     IF raised THEN CtlStep(c, ui)
                     ELSE CtlStep(c, Called(receive_message(ui, "reply", "bot"),
                                            "receive_message(bot)"))
             [] msg = "text" -> StartConversation(c)

\* lines 128-161: handle_input(msg)
HandleInput(msg) ==
    /\ controller.inputs < MaxInputs
    /\ LET c == [controller EXCEPT !.inputs = @ + 1, !.msg = msg]
       IN  CASE msg = "blank" -> CtlStep(c, ui)
             [] msg = "command" ->
                  \E raised \in BOOLEAN :
                     IF raised THEN CtlStep(c, ui)
                     ELSE CtlStep(c, Called(receive_message(ui, "reply", "bot"),
                                            "receive_message(bot)"))
             [] msg = "text" ->
                  IF controller.busy
                  THEN CtlStep(c, Called(receive_message(ui, "warning", "bot"),
                                         "receive_message(bot)"))
                  ELSE StartConversation(c)

\* lines 188-197: an on_chat_model_stream event with text
StreamChunk ==
    /\ controller.pc = "streaming"
    /\ CtlStep([controller EXCEPT !.partial = TRUE],
               Called(stream_update(ui, controller.stream, "partial"), "stream_update"))

\* lines 217-222: the event stream is exhausted
StreamEnds ==
    /\ controller.pc = "streaming"
    /\ IF controller.partial
       THEN Ends(controller, end_stream(ui, controller.stream, "partial"))
       ELSE CtlStep([controller EXCEPT !.pc = "fallback"], ui)

\* lines 198-216: the event stream raises
StreamRaises(err) ==
    /\ controller.pc = "streaming"
    /\ IF err = "unsupported" /\ controller.streaming_enabled
       THEN \E initialized \in BOOLEAN :
               LET c == [controller EXCEPT !.streaming_enabled = FALSE]
               IN  IF initialized THEN CtlStep([c EXCEPT !.pc = "fallback"], ui)
                   ELSE EndsRaising(c, ui)
       ELSE IF err = "attribute"
       THEN CtlStep([controller EXCEPT !.pc = "fallback"], ui)
       ELSE Ends(controller, handle_error(ui, controller.stream))

\* lines 237-288: _fallback_invoke, once agent.ainvoke has returned or raised
FallbackInvoke ==
    /\ controller.pc = "fallback"
    /\ \E invoked \in BOOLEAN :
          IF invoked THEN Ends(controller, end_stream(ui, controller.stream, "final"))
          ELSE EndsRaising(controller, ui)

ChatNext ==
    \/ \E msg \in Messages : HandleInput(msg)
    \/ StreamChunk
    \/ StreamEnds
    \/ \E err \in StreamErrors : StreamRaises(err)
    \/ FallbackInvoke

ChatSpec == Init /\ [][ChatNext]_vars

-----------------------------------------------------------------------------
(* The tool events of a conversation: _format_tool_event, _derive_run_key,
   _register_tool_start, _register_tool_end, _pop_pending_call. *)

\* tool calls started over a run
MaxCalls == 2

\* None, and every other falsy id
NoId == ""

\* event names: no name, and two tools
EventNames == {"", "greet", "numbers"}

\* d[k] = v on a dict d
DictPut(d, k, v) == [x \in DOMAIN d \cup {k} |-> IF x = k THEN v ELSE d[x]]
\* d.pop(k)
DictPop(d, k) == [x \in DOMAIN d \ {k} |-> d[x]]

\* the data of an event: what it carries under "id", "run_id", "tool_call_id" and
\* under metadata "run_id", "tool_call_id"
NoData == [id |-> NoId, run_id |-> NoId, tool_call_id |-> NoId,
           meta_run_id |-> NoId, meta_tool_call_id |-> NoId]

\* what the events of the k-th call may carry: nothing, an id, a run_id with a
\* tool_call_id, a tool_call_id alone, a run_id in the metadata
Shapes == {"none", "id", "run", "tool_call", "meta"}
Data(k, shape) ==
    CASE shape = "none" -> NoData
      [] shape = "id" -> [NoData EXCEPT !.id = "x" \o IntStr(k)]
      [] shape = "run" -> [NoData EXCEPT !.run_id = "r" \o IntStr(k),
                                         !.tool_call_id = "t" \o IntStr(k)]
      [] shape = "tool_call" -> [NoData EXCEPT !.tool_call_id = "t" \o IntStr(k)]
      [] shape = "meta" -> [NoData EXCEPT !.meta_run_id = "r" \o IntStr(k)]

\* line 334: data.get("id") or data.get("tool_call_id") or data.get("run_id")
CallIdOf(d) ==
    IF d.id # NoId THEN d.id ELSE IF d.tool_call_id # NoId THEN d.tool_call_id ELSE d.run_id

\* lines 345-357: _derive_run_key
derive_run_key(d) ==
    IF d.id # NoId THEN "id:" \o d.id
    ELSE IF d.run_id # NoId THEN "run_id:" \o d.run_id
    ELSE IF d.tool_call_id # NoId THEN "tool_call_id:" \o d.tool_call_id
    ELSE IF d.meta_run_id # NoId THEN "meta_run_id:" \o d.meta_run_id
    ELSE IF d.meta_tool_call_id # NoId THEN "meta_tool_call_id:" \o d.meta_tool_call_id
    ELSE NoId

\* line 330-331: the registry is empty, every tool belongs to "unknown"
FullName(name) == "unknown::" \o name

\* self._pending_calls.get(tool_name), an absent key read as the empty queue
Queue(c, tool_name) ==
    IF tool_name \in DOMAIN c.pending_calls THEN c.pending_calls[tool_name] ELSE << >>

\* str(uuid.uuid4()): an id nothing else has; c counts it
Uuid(c) == "u" \o IntStr(c.uuids + 1)

\* lines 381-385: the controller left and the id returned
pop_pending_call(c, tool_name) ==
    IF Queue(c, tool_name) # << >>
    THEN [c |-> [c EXCEPT !.pending_calls[tool_name] = Tail(@)],
          id |-> Head(Queue(c, tool_name))]
    ELSE [c |-> c, id |-> NoId]

\* lines 326-343: the event as (call_id, name, run_key), the popping of the pending
\* queue for an end event without call id included; name "" when there is no event
format_tool_event(c, name, d, event_type) ==
    IF name = "" THEN [c |-> c, name |-> "", call_id |-> NoId, run_key |-> NoId]
    ELSE LET popped == IF event_type = "on_tool_end" /\ CallIdOf(d) = NoId
                       THEN pop_pending_call(c, FullName(name))
                       ELSE [c |-> c, id |-> CallIdOf(d)]
         IN  [c |-> popped.c, name |-> FullName(name), call_id |-> popped.id,
              run_key |-> derive_run_key(d)]

\* lines 359-366: _register_tool_start, the controller left and the id returned
register_tool_start(c, tool_name, call_id, run_key) ==
    LET id == IF call_id # NoId THEN call_id ELSE Uuid(c)
        c1 == IF call_id # NoId THEN c ELSE [c EXCEPT !.uuids = @ + 1]
        c2 == IF run_key # NoId
              THEN [c1 EXCEPT !.tool_run_lookup = DictPut(@, run_key, id)] ELSE c1
    IN  [c |-> [c2 EXCEPT !.pending_calls = DictPut(@, tool_name, Append(Queue(c2, tool_name), id)),
                          !.tool_metadata = DictPut(@, id, tool_name)],
         id |-> id]

RECURSIVE Remove(_, _)
\* queue.remove(x): the first x goes
Remove(queue, x) ==
    IF queue = << >> THEN << >>
    ELSE IF Head(queue) = x THEN Tail(queue)
    ELSE <<Head(queue)>> \o Remove(Tail(queue), x)

InQueue(queue, x) == \E i \in 1..Len(queue) : queue[i] = x

\* lines 368-379: _register_tool_end, the controller left and the id returned
register_tool_end(c, tool_name, call_id, run_key) ==
    LET hit == run_key # NoId /\ run_key \in DOMAIN c.tool_run_lookup
        id1 == IF hit THEN c.tool_run_lookup[run_key] ELSE call_id
        c1 == IF hit THEN [c EXCEPT !.tool_run_lookup = DictPop(@, run_key)] ELSE c
        queue == Queue(c1, tool_name)
        c2 == [c1 EXCEPT !.pending_calls = DictPut(@, tool_name, queue)]
        r == IF id1 # NoId /\ InQueue(queue, id1)
             THEN [c |-> [c2 EXCEPT !.pending_calls[tool_name] = Remove(queue, id1)],
                   id |-> id1]
             ELSE IF id1 = NoId /\ queue # << >>
             THEN [c |-> [c2 EXCEPT !.pending_calls[tool_name] = Tail(queue)],
                   id |-> Head(queue)]
             ELSE IF id1 # NoId THEN [c |-> c2, id |-> id1]
             ELSE [c |-> [c2 EXCEPT !.uuids = @ + 1], id |-> Uuid(c2)]
    IN  [c |-> [r.c EXCEPT !.tool_metadata =
                   IF r.id \in DOMAIN @ THEN @ ELSE DictPut(@, r.id, tool_name)],
         id |-> r.id]

\* the calls started so far, and those of them that have ended
Started == {i \in 1..Len(controller.reported) : controller.reported[i].kind = "call"}
EndedCalls == {controller.reported[i].call : i \in {j \in 1..Len(controller.reported) :
                                                     controller.reported[j].kind = "reply"}}
\* lines 173-179: an on_tool_start event named name carrying what shape says; it
\* belongs to a new call
ToolStart(name, shape) ==
    /\ controller.pc = "streaming"
    /\ Cardinality(Started) < MaxCalls
    /\ LET k == Cardinality(Started) + 1
           d == Data(k, shape)
           ev == format_tool_event(controller, name, d, "on_tool_start")
       IN  IF ev.name = "" THEN UNCHANGED <<controller, ui>>
           ELSE LET r == register_tool_start(ev.c, ev.name, ev.call_id, ev.run_key)
                IN  /\ controller' = [r.c EXCEPT !.reported = Append(@,
                            [kind |-> "call", call |-> k, tool |-> name, name |-> ev.name,
                             data |-> d,
                             call_id |-> r.id])]
                    /\ UNCHANGED ui
    /\ UNCHANGED <<servers, procs, files, disk, frame>>

\* lines 180-187: the on_tool_end event of the started call k, carrying what shape
\* says; the view gets the reply under the id _register_tool_end returned
ToolEnd(k, shape) ==
    /\ controller.pc = "streaming"
    /\ k \in 1..Cardinality(Started)
    /\ k \notin EndedCalls
    /\ LET start == controller.reported[CHOOSE i \in Started : controller.reported[i].call = k]
           d == Data(k, shape)
           ev == format_tool_event(controller, start.tool, d, "on_tool_end")
           r == register_tool_end(ev.c, ev.name, ev.call_id, ev.run_key)
       IN  /\ controller' = [r.c EXCEPT !.reported = Append(@,
                   [kind |-> "reply", call |-> k, tool |-> start.tool, name |-> ev.name,
                    data |-> d,
                    call_id |-> r.id])]
           /\ UNCHANGED ui
    /\ UNCHANGED <<servers, procs, files, disk, frame>>

\* a conversation and the tool events of its stream, up to the end of the stream
EventNext ==
    \/ HandleInput("text")
    \/ \E name \in EventNames, shape \in Shapes : ToolStart(name, shape)
    \/ \E k \in 1..MaxCalls, shape \in Shapes : ToolEnd(k, shape)

EventSpec == Init /\ [][EventNext]_vars

\* The tool directory over servers started from either bundled script, each on a
\* port of the allocator's choice.
ToolScripts == {"random_server.py", "ascii_server.py"}

ToolNext ==
    \/ \E name \in Names, script \in ToolScripts :
            StartBegin("main", name, script, NoPort, NoLog, << >>)
    \/ StartPort("main")
    \/ StartOpen("main")
    \/ StartSpawn("main")
    \/ StartRegister("main")
    \/ StartHealth("main")
    \/ \E name \in Names : StopBegin("main", name)
    \/ StopTerminate("main")
    \/ StopWait("main")
    \/ StopClose("main")
    \/ StopPop("main")
    \/ GetToolServerDict("main")
    \/ Return("main")
    \/ Environment

ToolSpec == Init /\ [][ToolNext]_vars

-----------------------------------------------------------------------------
\* Properties of the manager.

\* caller t makes the call op(name) in this step
Calling(t, op) ==
    /\ frame[t].pc = "idle"
    /\ frame'[t].pc # "idle"
    /\ frame'[t].op = op

\* caller t has been handed the outcome of op
Returned(t, op) == frame[t].pc = "return" /\ frame[t].op = op

AlreadyRunning(name) ==
    Envelope("error", Msg("Server '{name}' already running.", name, NoPort, 0))

NotFound(name) ==
    Envelope("error", Msg("No server named '{name}' found.", name, NoPort, 0))

\* C1: the registry never holds two records of one name, and start(name, ...) on a
\* registered name returns the error envelope "Server '<name>' already running.",
\* spawns no process, opens no file and leaves every record as it was.
C1_StartOnRegisteredName ==
    [][/\ \A i, j \in 1..Len(servers') :
             servers'[i].name = servers'[j].name => i = j
       /\ \A t \in Threads :
             (Calling(t, "start") /\ frame'[t].name \in RegNames(servers))
             => /\ frame'[t].pc = "return"
                /\ frame'[t].out = AlreadyRunning(frame'[t].name)
                /\ servers' = servers
                /\ procs' = procs
                /\ files' = files
                /\ disk' = disk]_vars

\* a start was rejected for a name whose record is still in the registry
C1_Witness ==
    /\ Returned("main", "start")
    /\ frame["main"].out = AlreadyRunning(frame["main"].name)
    /\ Has(frame["main"].name)
    /\ Len(servers) = 2

\* C2 as stated: every record has its process running and its stream open, or its
\* process exited and its stream closed.
C2_BothLiveOrBothReleased ==
    \A i \in 1..Len(servers) :
       \/ /\ procs[servers[i].proc].state = "running"
          /\ files[servers[i].file].state = "open"
       \/ /\ procs[servers[i].proc].state = "exited"
          /\ files[servers[i].file].state = "closed"

\* C2 amended: the stream of a record is never closed while its process is live; it
\* is closed only inside stop, after the exit was observed and just before the
\* record is removed. (A process that exits on its own keeps its record, with the
\* stream open, until stop removes it.)
C2_StreamClosedOnlyAfterExit ==
    \A i \in 1..Len(servers) :
       files[servers[i].file].state = "closed"
       => /\ procs[servers[i].proc].state = "exited"
          /\ \E t \in Threads : /\ frame[t].pc = "pop"
                                /\ frame[t].name = servers[i].name
                                /\ frame[t].fh = servers[i].file

\* a record whose stream stop has just closed, its process having exited
C2_Witness ==
    \E i \in 1..Len(servers) :
       /\ files[servers[i].file].state = "closed"
       /\ procs[servers[i].proc].state = "exited"

\* C3: stop(name) on a record whose process has already exited returns 'ok' and
\* removes the record in the same step, without terminate and without wait.
C3_StopOnExitedProcess ==
    [][\A t \in Threads :
          (/\ Calling(t, "stop")
           /\ frame'[t].name \in RegNames(servers)
           /\ procs[Get(frame'[t].name).proc].state = "exited")
          => /\ frame'[t].pc = "return"
             /\ frame'[t].out.kind = "return"
             /\ frame'[t].out.status = "ok"
             /\ frame'[t].name \notin RegNames(servers')
             /\ frame'[t].trace = <<"poll", "pop">>
             /\ procs' = procs]_vars

\* stop has returned 'ok' for a process found already exited
C3_Witness ==
    /\ Returned("main", "stop")
    /\ frame["main"].out.status = "ok"
    /\ frame["main"].out.msg.tmpl = "Process for '{name}' already stopped."
    /\ ~Has(frame["main"].name)

\* C4: whenever stop(name) has returned 'ok' the log stream of the record it removed
\* is closed.
C4_StopClosesStream ==
    \A t \in Threads :
       (Returned(t, "stop") /\ frame[t].out.status = "ok")
       => files[frame[t].fh].state = "closed"

\* C5: when the child outlives the wait, stop(name) returns 'error' and leaves the
\* process running, the stream open and the record registered.
C5_StopTimeout ==
    [][\A t \in Threads :
          (/\ frame[t].pc = "wait"
           /\ frame[t].op = "stop"
           /\ procs[frame[t].pid].state = "running"
           /\ frame'[t] # frame[t])
          => /\ frame'[t].pc = "return"
             /\ frame'[t].out.kind = "return"
             /\ frame'[t].out.status = "error"
             /\ procs' = procs
             /\ files' = files
             /\ files[frame[t].fh].state = "open"
             /\ servers' = servers
             /\ Has(frame[t].name)
             /\ Get(frame[t].name).proc = frame[t].pid]_vars

\* stop has returned 'error' after a timed-out wait; the record is still there
C5_Witness ==
    /\ Returned("main", "stop")
    /\ frame["main"].out.status = "error"
    /\ frame["main"].out.msg.name = "TimeoutExpired"
    /\ Has(frame["main"].name)
    /\ procs[frame["main"].pid].state = "running"
    /\ files[frame["main"].fh].state = "open"

\* C6: a stop that sent the termination signal and returned 'ok' did terminate,
\* wait, close, pop in that order; no step removes a record whose process has not
\* exited; after the 'ok' the name is absent, and a start on an absent name is
\* never rejected as already running.
C6_StopOrder ==
    [][/\ \A t \in Threads :
             (/\ frame[t].pc # "return"
              /\ Returned(t, "stop")'
              /\ frame'[t].out.status = "ok"
              /\ frame'[t].out.msg.tmpl # "Process for '{name}' already stopped.")
             => /\ frame'[t].trace = <<"poll", "terminate", "wait", "close", "pop">>
                /\ frame'[t].name \notin RegNames(servers')
                /\ files'[frame'[t].fh].state = "closed"
       /\ \A i \in 1..Len(servers) :
             servers[i].name \notin RegNames(servers')
             => procs[servers[i].proc].state = "exited"
       /\ \A t \in Threads :
             (Calling(t, "start") /\ frame'[t].name \notin RegNames(servers))
             => frame'[t].out # AlreadyRunning(frame'[t].name)]_vars

\* the second process launched under a name has been stopped on the normal path:
\* the name went Absent, Running, Absent, Running, Absent
C6_Witness ==
    /\ Returned("main", "stop")
    /\ frame["main"].trace = <<"poll", "terminate", "wait", "close", "pop">>
    /\ frame["main"].pid = 2
    /\ files[1].path = DefaultLog(frame["main"].name)
    /\ files[2].path = DefaultLog(frame["main"].name)

\* C7: stop(name) for an unregistered name returns the error envelope
\* "No server named '<name>' found." and changes nothing.
C7_StopUnknownName ==
    [][\A t \in Threads :
          (Calling(t, "stop") /\ frame'[t].name \notin RegNames(servers))
          => /\ frame'[t].pc = "return"
             /\ frame'[t].out = NotFound(frame'[t].name)
             /\ servers' = servers
             /\ procs' = procs
             /\ files' = files
             /\ disk' = disk]_vars

\* stop was refused for a name that is not registered while another one is
C7_Witness ==
    /\ Returned("main", "stop")
    /\ frame["main"].out = NotFound(frame["main"].name)
    /\ servers # << >>

\* C8: a start that launched its process has the record in the registry from before
\* the warm-up sleep on; when it returns, the record is registered whatever the
\* health result, status is 'ok' exactly when healthy and 'warning' otherwise, and
\* the envelope's port is the record's port.
C8_StartEnvelope ==
    \A t \in Threads :
       /\ (frame[t].op = "start" /\ frame[t].pc = "sleep")
          => /\ Has(frame[t].name)
             /\ Get(frame[t].name).proc = frame[t].pid
             /\ frame[t].trace[Len(frame[t].trace)] = "insert"
       /\ (Returned(t, "start") /\ frame[t].pid # 0)
          => /\ frame[t].out.kind = "return"
             /\ frame[t].out.status = (IF frame[t].out.healthy THEN "ok" ELSE "warning")
             /\ Has(frame[t].name)
             /\ Get(frame[t].name).proc = frame[t].pid
             /\ Get(frame[t].name).port = frame[t].out.port
             /\ SubSeq(frame[t].trace, Len(frame[t].trace) - 2, Len(frame[t].trace))
                    = <<"insert", "sleep", "health">>

\* start has returned 'warning' after a failed health check; the record is tracked
C8_Witness ==
    /\ Returned("main", "start")
    /\ frame["main"].out.status = "warning"
    /\ ~frame["main"].out.healthy
    /\ Has(frame["main"].name)

\* a start has not gone through: it raised, or returned the script-not-found error
FailedStart(t) ==
    /\ Returned(t, "start")
    /\ \/ frame[t].out.kind = "raise"
       \/ frame[t].out.msg.tmpl = "Script not found: {script_path}"

\* C9: after a start on an absent name that failed (script missing, no free port,
\* log file not opened, spawn failed) the registry holds no record of that name.
C9_FailedStartLeavesNoRecord ==
    \A t \in Threads : FailedStart(t) => ~Has(frame[t].name)

\* a start whose Popen failed after the log file had been opened
C9_Witness ==
    /\ FailedStart("main")
    /\ frame["main"].out.status = "OSError"
    /\ frame["main"].fh # 0
    /\ ~Has(frame["main"].name)

\* C10: every public operation returns a value; none raises.
C10_NoOperationRaises ==
    \A t \in Threads : frame[t].pc = "return" => frame[t].out.kind = "return"

\* the **kwargs of the start that has just spawned its child, and the tokens its
\* command line carries after the interpreter, the script and the port
Spawned(t) == frame[t].op = "start" /\ frame[t].pc = "register"
SpawnedExtra(t) == SubSeq(procs[frame[t].pid].argv, 4, Len(procs[frame[t].pid].argv))

\* the place of token tok in the token list args (0 when it is not there)
Place(args, tok) ==
    IF \E i \in 1..Len(args) : args[i] = tok
    THEN CHOOSE i \in 1..Len(args) : args[i] = tok
    ELSE 0

\* C11: a key whose value is None contributes no token: for {seed: 42, debug: True,
\* label: None} the extra arguments are exactly --seed 42 --debug, and "--k" is in
\* the list only for keys k whose value is not None.
C11_NoneContributesNoToken ==
    \A t \in Threads :
       Spawned(t)
       => /\ frame[t].kwargs = <<[k |-> "seed", v |-> IntV(42)],
                                 [k |-> "debug", v |-> BoolV(TRUE)],
                                 [k |-> "label", v |-> NoneV]>>
             => SpawnedExtra(t) = <<"--seed", "42", "--debug">>
          /\ \A j \in 1..Len(frame[t].kwargs) :
                Place(SpawnedExtra(t), "--" \o frame[t].kwargs[j].k) # 0
                => frame[t].kwargs[j].v # NoneV

\* C12: every key whose value is neither None nor True is emitted as "--key"
\* immediately followed by str(value), in kwargs order (so for 1, 1.0, 0, False and
\* ""), and only the value True yields a bare flag.
C12_ValueFollowsKey ==
    \A t \in Threads :
       Spawned(t)
       => LET kw == frame[t].kwargs
              extra == SpawnedExtra(t)
              at(j) == Place(extra, "--" \o kw[j].k)
          IN  /\ \A j \in 1..Len(kw) :
                    kw[j].v \notin {NoneV, BoolV(TRUE)}
                    => /\ at(j) # 0
                       /\ at(j) < Len(extra)
                       /\ extra[at(j) + 1] = Str(kw[j].v)
              /\ \A i, j \in 1..Len(kw) :
                    (i < j /\ at(i) # 0 /\ at(j) # 0) => at(i) < at(j)
              /\ \A j \in 1..Len(kw) :
                    (/\ kw[j].v # NoneV
                     /\ at(j) # 0
                     /\ \/ at(j) = Len(extra)
                        \/ \E i \in 1..Len(kw) : extra[at(j) + 1] = "--" \o kw[i].k)
                    => kw[j].v = BoolV(TRUE)

\* caller t's start gets its port from the allocator in this step
Allocated(t) ==
    /\ frame[t].op = "start"
    /\ frame[t].pc = "port"
    /\ frame[t].port = NoPort
    /\ frame'[t].pc = "open"

\* caller t's start fails in the allocator in this step
AllocationFailed(t) ==
    /\ frame[t].op = "start"
    /\ frame[t].pc = "port"
    /\ frame'[t].pc = "return"
    /\ frame'[t].out = Raised("RuntimeError")

\* C13: every port the allocator returns lies in [start, end] and was bound by the
\* probe in the attempt that returned it; a candidate whose bind fails is never
\* returned.
C13_AllocatedPortWasBound ==
    [][\A t \in Threads :
          Allocated(t)
          => /\ PortStart <= frame'[t].port
             /\ frame'[t].port <= PortEnd
             /\ ~Busy(frame'[t].port)]_vars

\* the allocator has returned a port while another port of the range was bound
C13_Witness ==
    /\ frame["main"].op = "start"
    /\ frame["main"].pc = "open"
    /\ frame["main"].trace = <<"probe">>
    /\ \E p \in Ports : Busy(p)
    /\ ~Busy(frame["main"].port)

\* C14: the allocator fails (after at most 50 bind attempts, with RuntimeError) only
\* when no port of [start, end] is free.
C14_FailureMeansSaturated ==
    [][\A t \in Threads :
          AllocationFailed(t) => \A p \in Ports : Busy(p)]_vars

\* C15: the allocator never hands a later start the port of a record that is still
\* in the registry, whether or not that record's process has bound the port.
C15_RegisteredPortNotReallocated ==
    [][\A t \in Threads :
          Allocated(t)
          => \A i \in 1..Len(servers) : servers[i].port # frame'[t].port]_vars

\* C16: the port of a record is the one start inserted it with, for as long as the
\* record stays in the registry, whatever operation runs.
C16_RecordPortFixed ==
    [][/\ \A i \in 1..Len(servers) : \A j \in 1..Len(servers') :
             servers'[j].name = servers[i].name
             => /\ servers'[j].port = servers[i].port
                /\ servers'[j].proc = servers[i].proc
       /\ \A t \in Threads :
             (frame[t].pc = "register" /\ frame'[t].pc = "sleep")
             => /\ ~Has(frame[t].name)
                /\ servers' = Append(servers, servers'[Len(servers')])
                /\ servers'[Len(servers')].name = frame[t].name
                /\ servers'[Len(servers')].port = frame[t].port]_vars

\* two records with different ports, after a health check that was given the port
\* of the other record to probe
C16_Witness ==
    /\ Returned("main", "check_health")
    /\ Len(servers) = 2
    /\ Has(frame["main"].name)
    /\ Get(frame["main"].name).port # PortStart
    /\ \E i \in 1..Len(servers) : servers[i].port = PortStart

\* the number of times effect e occurs in the list of effects tr
Count(tr, e) == Cardinality({i \in 1..Len(tr) : tr[i] = e})

\* C17: stop_all on a non-empty registry stops each name registered at the moment
\* of the call exactly once, one after the other in registry order, and returns one
\* result per name; afterwards the registry holds exactly the names whose stop
\* returned 'error'. On an empty registry it returns the envelope "No servers
\* running." and changes nothing.
C17_StopAll ==
    [][\A t \in Threads :
          /\ (Calling(t, "stop_all") /\ servers = << >>)
             => /\ frame'[t].pc = "return"
                /\ frame'[t].out = Envelope("ok", Msg("No servers running.", "", NoPort, 0))
                /\ UNCHANGED <<servers, procs, files, disk>>
          /\ (Calling(t, "stop_all") /\ servers # << >>)
             => /\ frame'[t].pc = "next"
                /\ frame'[t].queue = Keys(servers)
                /\ frame'[t].results = << >>
                /\ UNCHANGED <<servers, procs, files, disk>>
          /\ (frame[t].op = "stop_all" /\ frame[t].pc = "next" /\ frame'[t] # frame[t])
             => LET n == Len(frame[t].results)
                IN  /\ frame'[t].queue = frame[t].queue
                    /\ n < Len(frame[t].queue)
                       => /\ frame'[t].name = frame[t].queue[n + 1]
                          /\ Count(frame'[t].trace, "poll") = n + 1
                    /\ n = Len(frame[t].queue) => frame'[t].pc = "return"
          /\ (frame[t].op = "stop_all" /\ frame'[t].op = "stop_all"
                                         /\ frame'[t] # frame[t])
             => \/ frame'[t].results = frame[t].results
                \/ /\ frame'[t].pc = "next"
                   /\ Len(frame'[t].results) = Len(frame[t].results) + 1
                   /\ SubSeq(frame'[t].results, 1, Len(frame[t].results))
                         = frame[t].results
                   /\ LET r == frame'[t].results[Len(frame'[t].results)]
                      IN  /\ r.kind = "return"
                          /\ r.status \in {"ok", "error"}
                          /\ r.status = "error" <=> frame'[t].name \in RegNames(servers')
          /\ (frame[t].pc = "next" /\ Returned(t, "stop_all")')
             => LET q == frame'[t].queue
                    res == frame'[t].out.value
                IN  /\ frame'[t].out.kind = "return"
                    /\ Len(res) = Len(q)
                    /\ Count(frame'[t].trace, "poll") = Len(q)
                    /\ RegNames(servers')
                          = {q[i] : i \in {j \in 1..Len(q) : res[j].status = "error"}}]_vars

\* stop_all has returned two results for two records: the first stop timed out and
\* its record is the one left, the second stop went through
C17_Witness ==
    /\ Returned("main", "stop_all")
    /\ Len(frame["main"].out.value) = 2
    /\ frame["main"].out.value[1].status = "error"
    /\ frame["main"].out.value[2].status = "ok"
    /\ Keys(servers) = <<frame["main"].queue[1]>>

\* C18: check_all on a non-empty registry returns a mapping whose keys are exactly
\* the registered names and whose values are what the health check on each record's
\* own port returns; on an empty registry it returns the envelope "No servers
\* running."; the registry is unchanged either way.
C18_CheckAll ==
    [][\A t \in Threads :
          Calling(t, "check_all")
          => /\ frame'[t].pc = "return"
             /\ frame'[t].out.kind = "return"
             /\ UNCHANGED <<servers, procs, files, disk>>
             /\ IF servers = << >>
                THEN frame'[t].out = Envelope("ok", Msg("No servers running.", "", NoPort, 0))
                ELSE /\ DOMAIN frame'[t].out.value = RegNames(servers)
                     /\ \A n \in RegNames(servers) :
                           /\ frame'[t].out.value[n] \in CheckHealth(n, Get(n).port)
                           /\ frame'[t].out.value[n] => Busy(Get(n).port)]_vars

\* check_all has returned for two records, one healthy and one not
C18_Witness ==
    /\ Returned("main", "check_all")
    /\ Len(servers) = 2
    /\ DOMAIN frame["main"].out.value = Names
    /\ \E n, m \in Names : frame["main"].out.value[n] /\ ~frame["main"].out.value[m]

\* C19: restart(name, new_port) on an unregistered name fails with the not-found
\* error and changes nothing; on a registered name it goes on to stop the server and
\* start it again, and after a successful restart the name is registered.
C19_Restart ==
    [][\A t \in Threads :
          Calling(t, "restart")
          => /\ frame'[t].name \notin RegNames(servers)
                => /\ frame'[t].pc = "return"
                   /\ frame'[t].out = NotFound(frame'[t].name)
                   /\ UNCHANGED <<servers, procs, files, disk>>
             /\ frame'[t].name \in RegNames(servers)
                => /\ frame'[t].out.kind # "raise"
                   /\ frame'[t].pc = "return" => frame'[t].name \in RegNames(servers')]_vars

\* C20: test_tool never raises; for an unregistered server it returns an 'error'
\* envelope without any client call, for a registered one 'ok' with the result when
\* the call completes and 'error' when it raises; nothing is changed.
C20_TestTool ==
    [][\A t \in Threads :
          Calling(t, "test_tool")
          => /\ frame'[t].pc = "return"
             /\ frame'[t].out.kind = "return"
             /\ UNCHANGED <<servers, procs, files, disk>>
             /\ IF frame'[t].name \notin RegNames(servers)
                THEN /\ frame'[t].out.status = "error"
                     /\ frame'[t].out.msg.tmpl = "Server '{server_name}' not running."
                     /\ frame'[t].trace = << >>
                ELSE /\ frame'[t].trace = <<"call">>
                     /\ frame'[t].out.status \in {"ok", "error"}
                     /\ frame'[t].out.status = "ok"
                        => /\ Busy(Get(frame'[t].name).port)
                           /\ frame'[t].out.value # << >>
                     /\ frame'[t].out.status = "error"
                        => /\ frame'[t].out.msg.tmpl = "str(e)"
                           /\ frame'[t].out.value = << >>]_vars

\* test_tool has returned the 'error' envelope for a call that raised: the server is
\* registered and nothing listens on its port
C20_Witness ==
    /\ Returned("main", "test_tool")
    /\ Has(frame["main"].name)
    /\ frame["main"].trace = <<"call">>
    /\ frame["main"].out.status = "error"
    /\ frame["main"].out.msg.name = "ConnectionError"
    /\ ~Busy(Get(frame["main"].name).port)

\* C21: check_health returns a boolean and never raises: TRUE only when the ping
\* round trip to the probed port completed, FALSE for every failure, and FALSE
\* without any client call when the name is unregistered and no port is given.
C21_CheckHealth ==
    [][\A t \in Threads :
          Calling(t, "check_health")
          => /\ frame'[t].pc = "return"
             /\ frame'[t].out.kind = "return"
             /\ frame'[t].out.value \in BOOLEAN
             /\ UNCHANGED <<servers, procs, files, disk>>
             /\ frame'[t].out.value
                => /\ frame'[t].trace = <<"call">>
                   /\ Busy(frame'[t].port)
             /\ (frame'[t].trace = <<"call">> /\ ~Busy(frame'[t].port))
                => frame'[t].out.value = FALSE
             /\ (frame'[t].name \notin RegNames(servers) /\ frame'[t].port = NoPort)
                => /\ frame'[t].out.value = FALSE
                   /\ frame'[t].trace = << >>
             /\ frame'[t].name \in RegNames(servers)
                => /\ frame'[t].trace = <<"call">>
                   /\ frame'[t].port \in {PortStart, Get(frame'[t].name).port}]_vars

\* check_health has returned FALSE for a round trip that failed although a server
\* is bound to the probed port
C21_Witness ==
    /\ Returned("main", "check_health")
    /\ frame["main"].trace = <<"call">>
    /\ frame["main"].out.value = FALSE
    /\ Busy(frame["main"].port)

\* C22: list_tools(name), called without a port, for a name that is not in the
\* registry returns the empty sequence, makes no client call, raises nothing and
\* changes nothing.
C22_ListToolsUnregistered ==
    [][\A t \in Threads :
          (/\ Calling(t, "list_tools")
           /\ frame'[t].name \notin RegNames(servers)
           /\ frame'[t].port = NoPort)
          => /\ frame'[t].pc = "return"
             /\ frame'[t].out = Value(<< >>)
             /\ frame'[t].trace = << >>
             /\ UNCHANGED <<servers, procs, files, disk>>]_vars

\* list_tools has returned the empty sequence for an unregistered name while a
\* server with tools is registered and listening
C22_Witness ==
    /\ Returned("main", "list_tools")
    /\ ~Has(frame["main"].name)
    /\ frame["main"].out = Value(<< >>)
    /\ frame["main"].trace = << >>
    /\ \E i \in 1..Len(servers) : Busy(servers[i].port)

\* the tool names the script of the i-th record registers
ToolSet(i) ==
    {ScriptTools(servers[i].script_path)[k] :
        k \in 1..Len(ScriptTools(servers[i].script_path))}

\* every registered server is up: its own process listens on the record's port
AllServing ==
    \A i \in 1..Len(servers) :
       procs[servers[i].proc].state = "running" /\ procs[servers[i].proc].listening

\* C23: for registered servers, all up, whose tool-name sets are pairwise disjoint,
\* the mapping get_tool_server_dict returns has the union of the tool names as its
\* key set and maps each tool name to the server that exposes it.
C23_DisjointToolsMapToOwner ==
    [][\A t \in Threads :
          (/\ Calling(t, "get_tool_server_dict")
           /\ AllServing
           /\ \A i, j \in 1..Len(servers) : i # j => ToolSet(i) \cap ToolSet(j) = {}
           /\ frame'[t].out.kind = "return")
          => /\ DOMAIN frame'[t].out.value = UNION {ToolSet(i) : i \in 1..Len(servers)}
             /\ \A i \in 1..Len(servers) : \A tl \in ToolSet(i) :
                   frame'[t].out.value[tl] = servers[i].name]_vars

\* the directory of two servers started from different scripts: four tools, two
\* mapped to each server
C23_Witness ==
    /\ Returned("main", "get_tool_server_dict")
    /\ frame["main"].out.kind = "return"
    /\ Len(servers) = 2
    /\ AllServing
    /\ ToolSet(1) \cap ToolSet(2) = {}
    /\ DOMAIN frame["main"].out.value = ToolSet(1) \cup ToolSet(2)
    /\ \A tl \in ToolSet(1) : frame["main"].out.value[tl] = servers[1].name
    /\ \A tl \in ToolSet(2) : frame["main"].out.value[tl] = servers[2].name

-----------------------------------------------------------------------------
(* The log reader: show_logs and the two passes of _filter_logs. *)

\* show_logs returned the lines of an existing log file
LogRead(t) ==
    /\ Returned(t, "show_logs")
    /\ frame[t].out.kind = "return"
    /\ frame[t].out.status = "ok"

\* the window of the file that show_logs hands to the filter
Window(t) == LastN(frame[t].lines, frame[t].n)

\* a line ends a suppressed block: read strictly it begins with a level prefix,
\* read loosely its first text after leading whitespace is a level prefix
ResumesAt(line, strict) ==
    IF strict THEN line # << >> /\ Head(line) \in LOG_PREFIXES
    ELSE \E k \in 1..Len(line) :
            /\ line[k] \in LOG_PREFIXES
            /\ \A j \in 1..(k - 1) : line[j] \in Whitespace

RECURSIVE Dropped(_, _, _)
\* line i of lines is dropped: it is a trigger line met while not suppressing, or
\* it follows a dropped line and does not end the block
Dropped(lines, i, strict) ==
    IF i = 0 THEN FALSE
    ELSE IF Dropped(lines, i - 1, strict) THEN ~ResumesAt(lines[i], strict)
         ELSE IsNoise(lines[i])

RECURSIVE KeptFrom(_, _, _)
\* the lines from index i on that are not dropped, in order and unmodified
KeptFrom(lines, i, strict) ==
    IF i > Len(lines) THEN << >>
    ELSE (IF Dropped(lines, i, strict) THEN << >> ELSE <<lines[i]>>)
             \o KeptFrom(lines, i + 1, strict)

\* C25 as stated: the noise pass drops each trigger line met while not suppressing
\* and every following line up to, not including, the next line that begins with
\* INFO:, WARNING:, ERROR: or DEBUG:; all other lines are kept in order, unmodified.
C25_ResumeBeginsWithPrefix ==
    \A t \in Threads :
        (LogRead(t) /\ frame[t].remove)
        => /\ NoisePass(Window(t), FALSE) = KeptFrom(Window(t), 1, TRUE)
           /\ frame[t].out.value = Compact(KeptFrom(Window(t), 1, TRUE), FALSE)

\* C25 amended: the noise pass drops each trigger line met while not suppressing
\* and every following line up to, not including, the next line whose first text
\* after leading whitespace is INFO:, WARNING:, ERROR: or DEBUG:; that resuming line
\* and all lines outside suppressed blocks are kept in order, unmodified.
C25_NoisePass ==
    \A t \in Threads :
        (LogRead(t) /\ frame[t].remove)
        => /\ NoisePass(Window(t), FALSE) = KeptFrom(Window(t), 1, FALSE)
           /\ frame[t].out.value = Compact(KeptFrom(Window(t), 1, FALSE), FALSE)

\* a trigger line and the text after it are dropped, the indented level line that
\* follows resumes and is kept with the text after it
C25_Witness ==
    /\ LogRead("main")
    /\ frame["main"].remove
    /\ frame["main"].n = 80
    /\ frame["main"].lines = <<<<"ConnectionResetError", "\n">>, <<"text", "\n">>,
                               <<" ", "INFO:", " ", "text", "\n">>, <<"text", "\n">>>>
    /\ frame["main"].out.value = <<<<" ", "INFO:", " ", "text", "\n">>, <<"text", "\n">>>>

NonBlank(line) == ~IsBlank(line)

\* C26: the lines show_logs returns from the filter never hold two adjacent blank
\* (whitespace-only) lines, and they hold every non-blank line that survived the
\* noise pass, in order.
C26_NoAdjacentBlanks ==
    \A t \in Threads :
        (LogRead(t) /\ frame[t].remove)
        => LET out == frame[t].out.value
           IN  /\ \A i \in 1..(Len(out) - 1) : NonBlank(out[i]) \/ NonBlank(out[i + 1])
               /\ SelectSeq(out, NonBlank)
                      = SelectSeq(NoisePass(Window(t), FALSE), NonBlank)

\* two blank lines, a trigger line and a level line: one blank line and the level
\* line are returned
C26_Witness ==
    /\ LogRead("main")
    /\ frame["main"].remove
    /\ frame["main"].n = 80
    /\ frame["main"].lines = <<<<"\n">>, <<" ", "\n">>, <<"ConnectionResetError", "\n">>,
                               <<"ERROR:", " ", "text", "\n">>>>
    /\ frame["main"].out.value = <<<<"\n">>, <<"ERROR:", " ", "text", "\n">>>>

\* the last n lines of lines, none when n = 0
TrailingLines(lines, n) ==
    SubSeq(lines, (IF n >= Len(lines) THEN 1 ELSE Len(lines) - n + 1), Len(lines))

\* C27: show_logs(name, n) returns at most n lines, all of them among the last n
\* lines of the log file, for every n >= 0; the filter is applied to that window
\* only.
C27_AtMostLastN ==
    \A t \in Threads :
        LogRead(t)
        => LET tail == TrailingLines(frame[t].lines, frame[t].n)
           IN  /\ Len(frame[t].out.value) <= frame[t].n
               /\ frame[t].out.value
                      = IF frame[t].remove THEN FilterLogs(tail) ELSE tail

-----------------------------------------------------------------------------
(* Who changes the registry. *)

ReadOnlyOps == {"check_health", "check_all", "list_tools", "get_tool_server_dict",
                "get_server_port_dict", "test_tool", "show_logs"}
WritingOps == {"start", "stop", "stop_all"}

\* C28: a step of check_health, check_all, list_tools, get_tool_server_dict,
\* get_server_port_dict, test_tool or show_logs leaves the registry (its names and
\* every field of every record) as it was, whatever it returns or raises; the
\* registry changes only in steps of start, stop and stop_all.
C28_OnlyStartAndStopWrite ==
    [][/\ \A t \in Threads :
             (frame'[t] # frame[t] /\ frame'[t].op \in ReadOnlyOps)
             => servers' = servers
       /\ servers' # servers
             => \E t \in Threads : frame'[t] # frame[t] /\ frame'[t].op \in WritingOps]_vars

\* get_server_port_dict has answered for two records, one of them with an exited
\* process, and both are still registered
C28_Witness ==
    /\ Returned("main", "get_server_port_dict")
    /\ Len(servers) = 2
    /\ procs[servers[1].proc].state = "exited"
    /\ DOMAIN frame["main"].out.value = {"a", "b"}

\* C29: a step of start or stop on a name A leaves every other name B as it was:
\* B is registered after the step exactly if it was before, with the same record
\* (process, port, log stream, log path, launch args, script path), and the step
\* touches neither B's process nor B's stream.
C29_OtherRecordsUntouched ==
    [][\A t \in Threads :
          (frame'[t] # frame[t] /\ frame'[t].op \in {"start", "stop"})
          => \A B \in Names \ {frame'[t].name} :
                /\ Has(B)' <=> Has(B)
                /\ Has(B) => /\ Get(B)' = Get(B)
                             /\ procs'[Get(B).proc] = procs[Get(B).proc]
                             /\ files'[Get(B).file] = files[Get(B).file]]_vars

\* stop('b') has terminated and removed "b", registered after "a" with a port of
\* its own; "a" is still registered
C29_Witness ==
    /\ Returned("main", "stop")
    /\ frame["main"].name = "b"
    /\ frame["main"].out.status = "ok"
    /\ \E i \in 1..Len(frame["main"].trace) : frame["main"].trace[i] = "terminate"
    /\ Keys(servers) = <<"a">>
    /\ Len(procs) = 2
    /\ procs[servers[1].proc].state = "running"

\* C30: no two records of the registry have the same log file path, and the
\* open(log_file, "w") of a start never truncates the log file of a record that is
\* registered.
C30_LogFileOwnedByOneRecord ==
    [][/\ \A i, j \in 1..Len(servers') :
             i # j => servers'[i].log_file # servers'[j].log_file
       /\ \A t \in Threads :
             (frame[t].pc = "open" /\ Len(files') = Len(files) + 1)
             => \A i \in 1..Len(servers) :
                   servers[i].log_file # files'[Len(files')].path]_vars

-----------------------------------------------------------------------------
(* Overlapping callers. *)

\* the record stored under name is the one of the process pid
TracksProc(reg, pid) == \E i \in 1..Len(reg) : reg[i].proc = pid
TracksFile(reg, fh) == \E i \in 1..Len(reg) : reg[i].file = fh

\* C31: overlapping start calls on one name are not serialized. When a start reaches
\* its insertion and the name has been registered in the meantime by another start,
\* the insertion replaces that record: the registry keeps one record for the name,
\* the one of the later insertion, and the earlier record's process and log stream
\* are left as they were (not terminated, not closed) with no record tracking them.
C31_LaterInsertReplaces ==
    [][\A t \in Threads :
          (/\ frame[t].pc = "register"
           /\ frame'[t].pc = "sleep"
           /\ Has(frame[t].name))
          => LET old == Get(frame[t].name)
             IN  /\ old.proc # frame[t].pid
                 /\ RegNames(servers') = RegNames(servers)
                 /\ Len(servers') = Len(servers)
                 /\ Get(frame[t].name)'.proc = frame[t].pid
                 /\ Get(frame[t].name)'.file = frame[t].fh
                 /\ ~TracksProc(servers', old.proc)
                 /\ ~TracksFile(servers', old.file)
                 /\ procs'[old.proc] = procs[old.proc]
                 /\ files'[old.file] = files[old.file]]_vars

\* both start('a') calls passed the check, spawned and inserted: one record, of the
\* second process, and the first process runs with its stream open, untracked
C31_Witness ==
    /\ \A t \in Threads :
          /\ Returned(t, "start")
          /\ frame[t].name = "a"
          /\ frame[t].out.kind = "return"
          /\ frame[t].out.status \in {"ok", "warning"}
    /\ Len(servers) = 1
    /\ Len(procs) = 2
    /\ \E k \in 1..2 :
          /\ ~TracksProc(servers, k)
          /\ procs[k].state = "running"
          /\ \E h \in 1..2 : ~TracksFile(servers, h) /\ files[h].state = "open"

-----------------------------------------------------------------------------
(* The life of a record. *)

\* the record of name is in the registry and its process has exited
ExitedRecord(name) == Has(name) /\ procs[Get(name).proc].state = "exited"

\* C32: a name enters the registry only in the insertion step of start and leaves
\* it only in a step of stop (called directly or by stop_all); a step in which a
\* tracked process exits leaves the registry as it was; and while the record of an
\* exited process is registered, start of its name is rejected as already running
\* and get_server_port_dict lists the name.
C32_RecordLifecycle ==
    [][/\ RegNames(servers') \ RegNames(servers) # {}
             => \E t \in Threads : frame[t].op = "start" /\ frame[t].pc = "register"
                                     /\ frame'[t] # frame[t]
       /\ RegNames(servers) \ RegNames(servers') # {}
             => \E t \in Threads : frame'[t].op \in {"stop", "stop_all"}
                                     /\ frame'[t] # frame[t]
       /\ procs' # procs /\ frame' = frame => servers' = servers
       /\ \A t \in Threads :
             (Calling(t, "start") /\ ExitedRecord(frame'[t].name))
             => /\ frame'[t].out = AlreadyRunning(frame'[t].name)
                /\ servers' = servers
       /\ \A t \in Threads :
             Calling(t, "get_server_port_dict")
             => /\ frame'[t].out.kind = "return"
                /\ DOMAIN frame'[t].out.value = RegNames(servers)
                /\ servers' = servers]_vars

\* start('a') was rejected as already running while the process of "a", the only
\* record, has exited
C32_Witness ==
    /\ Returned("main", "start")
    /\ frame["main"].name = "a"
    /\ frame["main"].out = AlreadyRunning("a")
    /\ Keys(servers) = <<"a">>
    /\ ExitedRecord("a")

\* the process k was spawned by a start that has not yet reached its insertion
BeingRegistered(fr, k) ==
    \E t \in Threads : fr[t].op = "start" /\ fr[t].pc = "register" /\ fr[t].pid = k

\* C33: with one caller, every process spawned by start that is still running is
\* tracked by a record (or is the process of a start between its Popen and its
\* insertion), and a record leaves the registry only in a step before which its
\* process had exited and the stop removing it had polled or waited for it.
C33_NoLiveUntrackedProcess ==
    [][/\ \A k \in 1..Len(procs') :
             procs'[k].state = "running" => TracksProc(servers', k) \/ BeingRegistered(frame', k)
       /\ \A i \in 1..Len(servers) :
             servers[i].name \notin RegNames(servers')
             => /\ procs[servers[i].proc].state = "exited"
                /\ \E t \in Threads :
                      /\ frame'[t].name = servers[i].name
                      /\ \E j \in 1..Len(frame'[t].trace) :
                            frame'[t].trace[j] \in {"poll", "wait"}]_vars

\* between calls: two processes were spawned, one has exited and its record was
\* removed, the other runs and is tracked by the one record left
C33_Witness ==
    /\ frame["main"] = IdleFrame
    /\ Len(procs) = 2
    /\ Len(servers) = 1
    /\ procs[servers[1].proc].state = "running"
    /\ \E k \in 1..2 : ~TracksProc(servers, k) /\ procs[k].state = "exited"

\* C34: no two records that are in the registry at the same time hold the same
\* port.
C34_PortsDistinct ==
    \A i, j \in 1..Len(servers) : i # j => servers[i].port # servers[j].port

-----------------------------------------------------------------------------
(* Rejected starts. *)

RejectTemplates == {"Server '{name}' already running.", "Script not found: {script_path}"}

\* the start of thread t is in a state fr where it was rejected for its name or script
Rejected(fr, t) ==
    /\ fr[t].op = "start"
    /\ fr[t].pc = "return"
    /\ fr[t].out.status = "error"
    /\ fr[t].out.msg.tmpl \in RejectTemplates

\* C35: a start rejected because the name is registered or the script is missing
\* is rejected in its first step and has done nothing: no port probe, no open (so
\* no log file created or truncated), no file handle, no process, no record changed.
C35_RejectedStartHasNoEffect ==
    [][\A t \in Threads :
          /\ (Calling(t, "start") /\ Has(frame'[t].name)) => Rejected(frame', t)
          /\ (Rejected(frame', t) /\ frame'[t] # frame[t])
                => /\ frame[t].pc = "idle"
                   /\ frame'[t].trace = << >>
                   /\ frame'[t].fh = 0
                   /\ frame'[t].pid = 0
                   /\ servers' = servers
                   /\ procs' = procs
                   /\ files' = files
                   /\ disk' = disk]_vars

\* start('a', 'gone.py') was rejected for its script while "b" runs; the one file
\* ever opened is the log of "b"
C35_Witness ==
    /\ Rejected(frame, "main")
    /\ frame["main"].name = "a"
    /\ frame["main"].out.msg.tmpl = "Script not found: {script_path}"
    /\ Keys(servers) = <<"b">>
    /\ Len(files) = 1
    /\ disk = {DefaultLog("b")}

-----------------------------------------------------------------------------
(* The log filter, once more. *)

\* C36: no line that show_logs returns from the filter contains a noise trigger,
\* and filtering the returned lines again changes nothing.
C36_FilterRemovesEveryTrigger ==
    \A t \in Threads :
        (LogRead(t) /\ frame[t].remove)
        => /\ \A i \in 1..Len(frame[t].out.value) : ~IsNoise(frame[t].out.value[i])
           /\ FilterLogs(frame[t].out.value) = frame[t].out.value

\* C37: once a name has been launched (its log file is on disk, and every start
\* that opened a log did launch its server), show_logs(name) reads the log file the
\* name was launched with, whether the name is registered or its record has been
\* removed by stop, and whether the path was the default or supplied by the caller.
C37_ShowLogsReadsLaunchLog ==
    \A t \in Threads :
        (/\ Returned(t, "show_logs")
         /\ LaunchLog(frame[t].name) \in disk
         /\ Len(procs) = Len(files))
        => /\ frame[t].out.status = "ok"
           /\ frame[t].out.log = LaunchLog(frame[t].name)

-----------------------------------------------------------------------------
(* The chat view. *)

\* the waiting-indicator widgets among the children of the chat box
Spinners(v) == {i \in 1..Len(v.children) : v.children[i].kind = "spinner"}

\* C40: after any sequence of calls the chat box holds at most one waiting
\* indicator (the one the view remembers), and none when the last call was
\* set_busy(False), the receipt of a bot message, or an end_stream that left no
\* active stream.
C40_AtMostOneIndicator ==
    /\ Cardinality(Spinners(ui)) <= 1
    /\ \A i \in Spinners(ui) : ui.children[i].id = ui.thinking
    /\ ui.last \in {"set_busy(False)", "receive_message(bot)"} => Spinners(ui) = {}
    /\ (ui.last = "end_stream" /\ ui.streams = {}) => Spinners(ui) = {}

\* the indicator was shown, a stream was started and ended: the indicator is gone
\* and the stream's bubble is the last child
C40_Witness ==
    /\ ui.last = "end_stream"
    /\ ui.streams = {}
    /\ ui.made = 2
    /\ ui.thinking = NoWidget
    /\ Len(ui.children) = 2
    /\ ui.children[2].kind = "bubble"
    /\ ui.children[2].text = "final"

-----------------------------------------------------------------------------
(* The controller. *)

\* the last child of the chat box
LastChild(v) == v.children[Len(v.children)]

\* a step that is a handle_input call with a message of kind msg
Handles(msg) == controller'.inputs = controller.inputs + 1 /\ controller'.msg = msg

EndReported ==
    /\ Len(controller'.reported) = Len(controller.reported) + 1
    /\ controller'.reported[Len(controller'.reported)].kind = "reply"
TheEnd == controller'.reported[Len(controller'.reported)]
TheStart == controller.reported[CHOOSE i \in Started : controller.reported[i].call = TheEnd.call]

\* two events carry the same run key or the same call id
SameKey(d, e) ==
    \/ derive_run_key(d) # NoId /\ derive_run_key(d) = derive_run_key(e)
    \/ CallIdOf(d) # NoId /\ CallIdOf(d) = CallIdOf(e)

\* an end event that shares a key with its start is reported under the start's id
OwnId == EndReported /\ SameKey(TheStart.data, TheEnd.data) => TheEnd.call_id = TheStart.call_id

\* an end event without any id takes the oldest pending start of its tool
Fifo ==
    EndReported /\ CallIdOf(TheEnd.data) = NoId /\ derive_run_key(TheEnd.data) = NoId
                /\ Queue(controller, TheEnd.name) # << >>
        => TheEnd.call_id = Head(Queue(controller, TheEnd.name))

\* every started call has ended
AllEnded == controller.pc = "streaming" /\ Started # {} /\ \A i \in Started : controller.reported[i].call \in EndedCalls
NothingPending ==
    /\ DOMAIN controller.tool_run_lookup = {}
    /\ \A name \in DOMAIN controller.pending_calls : controller.pending_calls[name] = << >>

\* C39: within a run, an end event is reported under the call id assigned at its own
\* start whenever both carry the same run key or call id, an end event without any
\* id takes the oldest pending start of its tool, and once every started call has
\* ended the pending-call queues and the run-key lookup are empty.
C39_ToolEventsMatched == [][OwnId /\ Fifo /\ (AllEnded => NothingPending)']_vars
====
